---- MODULE Spec2Model ----
\* SFTP transfer engines of SKOPOS SFTPTools for Alteryx:
\*   SKOPOSSFTPDownload_v1.0Engine.py  (list / download to path / download to blob)
\*   SKOPOSSFTPUpload_v1.0Engine.py    (upload from path / upload from blob)
\* One run of one plugin instance: construction, pi_init, then either the
\* static run (pi_push_all_records) or the streaming run (ii_init,
\* ii_push_record ..., ii_close).  Calls into pysftp / os / the Alteryx engine
\* are recorded in `trace`; their outcomes are chosen by the environment.
EXTENDS Integers, Sequences, FiniteSets, TLC

\* ---------------------------------------------------------------- bounds
\* number of names in the remote working directory / local source directory
MaxItems == 2
\* number of records an upstream tool pushes (ii_push_record calls)
MaxRecords == 2

Names == 1..MaxItems

\* ---------------------------------------------------------------- values
None == "None"

ToolModes == {"NONE_MODE", "LIST_FILES", "DOWNLOAD_TO_PATH", "DOWNLOAD_TO_BLOB"}

UploadModes == {"NONE_MODE", "UPLOAD_FILES", "UPLOAD_BLOBS"}

FileHandlings == {"NONE_HANDLING", "KEEP_FILES", "DELETE_FILES", "MOVE_FILES"}

\* REGEX_HOSTNAME accepts dot-separated labels of letters, digits and inner
\* hyphens; a scheme, user or port part ("sftp://host") does not match.
REGEX_HOSTNAME == {"host"}

\* the local paths a configuration may name, with what the local filesystem
\* holds there (os.path.exists / os.path.isfile / os.path.isdir)
LocalFS == [p \in {"/nokey", "/keydir", "/id_rsa", "/nodir/", "/afile/", "/out/", "/archive/"} |->
              CASE p = "/nokey"   -> "absent"
                [] p = "/keydir"  -> "dir"
                [] p = "/id_rsa"  -> "file"
                [] p = "/nodir/"  -> "absent"
                [] p = "/afile/"  -> "file"
                [] p = "/out/"    -> "dir"
                [] p = "/archive/" -> "dir"]

os_path_exists(p) == LocalFS[p] # "absent"

os_path_isfile(p) == LocalFS[p] = "file"

os_path_isdir(p) == LocalFS[p] = "dir"

\* the key the server presents, and a stale key a known_hosts file may hold
ServerKey == "k1"

StaleKey == "k2"

\* a file system entry: absent, a directory, or a file with its bytes
Absent == [kind |-> "absent", data |-> <<>>]

Dir == [kind |-> "dir", data |-> <<>>]

File(bytes) == [kind |-> "file", data |-> bytes]

\* the bytes the remote file `n` holds at the start, and the bytes of the
\* local source file `n`
RemoteBytes(n) == <<n>>

LocalBytes(n) == <<n, n>>

\* the blobs an upstream tool may send
Blobs == {<<>>, <<7, 8>>}

\* ---------------------------------------------------------------- state
VARIABLES
  engine,        \* which of the two plugins this instance is
  UpdateOnly,    \* alteryx_engine.get_init_var(n_tool_id, 'UpdateOnly')
  str_xml,       \* the configuration of the GUI the engine hands to pi_init
  plugin,        \* the fields of AyxPlugin
  ii,            \* the fields of IncomingInterface
  pc,            \* where the run is
  file_list,     \* pi_push_all_records: the snapshot of the remote directory
  item_counter,  \* pi_push_all_records: loop counter
  sftp_conn,     \* pi_push_all_records: the local sftp_conn
  pushes,        \* number of ii_push_record calls so far
  closes,        \* number of ii_close calls so far
  known_hosts,   \* the persisted known_hosts file: sequence of [host, key]
  hosts_dir,     \* whether the directory of the known_hosts file exists
  sessions,      \* every pysftp.Connection that was established
  remote,        \* the remote working directory: name -> entry
  archive,       \* remote names renamed into move_path: name -> entry
  local,         \* the local source files (upload): name -> entry
  local_archive, \* local files moved into move_path (upload)
  temp_files,    \* what is at each name create_temp_file_name handed out
  uploaded,      \* history: the blob the last successful putfo stored under each name
  trace          \* the messages, SFTP / os calls, records and progress reports
                 \* of the handler invocation in progress (or of the last one)

cfgVars == <<engine, UpdateOnly, str_xml, plugin>>

envVars == <<known_hosts, hosts_dir, sessions, remote, archive, local, local_archive, temp_files, trace>>

ctlVars == <<ii, pc, file_list, item_counter, sftp_conn, pushes, closes>>

vars == <<engine, UpdateOnly, str_xml, plugin, ii, pc, file_list, item_counter, sftp_conn, pushes, closes, known_hosts, hosts_dir, sessions, remote, archive, local, local_archive, temp_files, uploaded, trace>>

\* ---------------------------------------------------------------- trace
\* One event. ev: "msg" | "call" | "record" | "progress" | "return".
\*   msg:      kind = error | warning | info, what = which message
\*   call:     kind = the primitive, what = its outcome
\*   record:   kind = the tool mode, data = the fields of the record
\*   progress: kind = "update_progress", data = <<numerator, denominator>>
\*   return:   kind = the handler, what = "True" | "False" | the exception
\* item = the file name the event is about, for a message the file name its
\* text names (0: none), k = the ordinal of the
\* item being processed (0: outside item processing), sess = the session used.
Event(ev, kind, what, item, k, sess, data) == [ev |-> ev, kind |-> kind, what |-> what, item |-> item, k |-> k, sess |-> sess, data |-> data]

Msg(kind, what, item, k) == Event("msg", kind, what, item, k, 0, <<>>)

Call(op, outcome, item, k, sess) == Event("call", op, outcome, item, k, sess, <<>>)

Return(handler, value) == Event("return", handler, value, 0, 0, 0, <<>>)

Progress(num, den) == Event("progress", "update_progress", "", 0, 0, 0, <<num, den>>)

\* output_message(text) with the default messageType = error
output_message(text, item, k) == Msg("error", text, item, k)

\* ---------------------------------------------------------------- settings
\* validate_settings of the download plugin: the messages of the failing
\* checks, in the order of the code; valid iff there is none.
DownloadChecks(p) ==
  (IF p.hostname = None THEN <<"Please enter a hostname.">>
   ELSE IF p.hostname \notin REGEX_HOSTNAME THEN <<"Please enter a valid hostname without protocol, user or port.">>
   ELSE <<>>)
  \o (IF p.port = 0 THEN <<"Please provide a port for the connection.">> ELSE <<>>)
  \o (IF p.username = None THEN <<"Please provide a username for the connection.">> ELSE <<>>)
  \o (IF p.remote_path = None THEN <<"Please provide a remote path. Root directory would be /.">> ELSE <<>>)
  \o (IF p.tool_mode = "NONE_MODE" THEN <<"Please select a mode for the tool.">> ELSE <<>>)
  \o (IF p.tool_mode = "DOWNLOAD_TO_PATH" /\ p.local_path = None THEN <<"Please enter a path to store downloaded files.">> ELSE <<>>)
  \o (IF p.tool_mode # "LIST_FILES" /\ p.file_handling = "NONE_HANDLING" THEN <<"Please decide what should happen with the files after download.">> ELSE <<>>)
  \o (IF p.tool_mode # "LIST_FILES" /\ p.file_handling = "MOVE_FILES" /\ p.move_path = None THEN <<"Please specify a path where the data should be moved to.">> ELSE <<>>)
  \o (IF p.key_filepath = None THEN <<>>
      ELSE IF ~os_path_exists(p.key_filepath) THEN <<"The keyfile could not be found. Please check file path.">>
      ELSE IF ~os_path_isfile(p.key_filepath) THEN <<"The path for the keyfile is not a file. Please specify a filename.">>
      ELSE <<>>)
  \o (IF p.tool_mode = "DOWNLOAD_TO_PATH" /\ p.local_path # None
      THEN (IF ~os_path_exists(p.local_path) THEN <<"The specified path for the output does not exist.">>
            ELSE IF ~os_path_isdir(p.local_path) THEN <<"The output path is not a directory. Please enter a directory.">>
            ELSE <<>>)
      ELSE <<>>)
  \o (IF p.input_optional /\ p.incoming_field = None THEN <<"Please select a field from the incoming data containing file/folder names.">> ELSE <<>>)

\* validate_settings of the upload plugin
UploadChecks(p) ==
  (IF p.hostname = None THEN <<"Please enter a hostname.">>
   ELSE IF p.hostname \notin REGEX_HOSTNAME THEN <<"Please enter a valid hostname without protocol, user or port.">>
   ELSE <<>>)
  \o (IF p.port = 0 THEN <<"Please provide a port for the connection.">> ELSE <<>>)
  \o (IF p.username = None THEN <<"Please provide a username for the connection.">> ELSE <<>>)
  \o (IF p.remote_path = None THEN <<"Please provide a remote path. Root directory would be /.">> ELSE <<>>)
  \o (IF p.upload_mode = "NONE_MODE" THEN <<"Please specify what kind of data you provide.">> ELSE <<>>)
  \o (IF p.incoming_field = None THEN <<"Please select a field from the incoming data containing file names.">> ELSE <<>>)
  \o (IF p.upload_mode = "UPLOAD_BLOBS" /\ p.blob_field = None THEN <<"Please select a field containing the blob data.">> ELSE <<>>)
  \o (IF p.upload_mode = "UPLOAD_FILES" /\ p.file_handling = "NONE_HANDLING" THEN <<"Please decide what should happen with the files after upload.">> ELSE <<>>)
  \o (IF p.upload_mode = "UPLOAD_FILES" /\ p.file_handling = "MOVE_FILES" /\ p.move_path = None THEN <<"Please specify a path where the data should be moved to after upload.">> ELSE <<>>)
  \o (IF p.key_filepath = None THEN <<>>
      ELSE IF ~os_path_exists(p.key_filepath) THEN <<"The keyfile could not be found. Please check file path.">>
      ELSE IF ~os_path_isfile(p.key_filepath) THEN <<"The path for the keyfile is not a file. Please specify a filename.">>
      ELSE <<>>)
  \o (IF p.upload_mode = "UPLOAD_FILES" /\ p.file_handling = "MOVE_FILES" /\ p.move_path # None
      THEN (IF ~os_path_exists(p.move_path) THEN <<"The specified path for moving the files after upload does not exist.">>
            ELSE IF ~os_path_isdir(p.move_path) THEN <<"The target path for moving the files is not a directory. Please enter a directory.">>
            ELSE <<>>)
      ELSE <<>>)

Checks(e, p) == IF e = "download" THEN DownloadChecks(p) ELSE UploadChecks(p)

\* a validation that accepts every configuration
validate_settings_accepting(e, p, silent) == [ok |-> TRUE, msgs |-> <<>>]

\* validate_settings: [ok, msgs]; the messages are emitted unless silent
validate_settings(e, p, silent) ==
  LET failing == Checks(e, p)
  IN [ok |-> failing = <<>>,
      msgs |-> IF silent THEN <<>> ELSE [i \in 1..Len(failing) |-> output_message(failing[i], 0, 0)]]

\* ---------------------------------------------------------------- threading
\* The handlers are sequential code over the environment; their model threads
\* a record of the environment through the steps.  ret: the value returned
\* (0 stands for False / None, a positive number for the session created);
\* exc: the exception that escaped, if any.
Env == [trace |-> trace, known_hosts |-> known_hosts, hosts_dir |-> hosts_dir, sessions |-> sessions, remote |-> remote, archive |-> archive, local |-> local, local_archive |-> local_archive, temp_files |-> temp_files, ret |-> 0, exc |-> None, count |-> 0]

\* `trace` holds the events of the handler invocation in progress (or of the
\* last one that returned): every handler starts with an empty trace.
Fresh == [Env EXCEPT !.trace = <<>>]

Commit(st) ==
  /\ trace' = st.trace
  /\ known_hosts' = st.known_hosts
  /\ hosts_dir' = st.hosts_dir
  /\ sessions' = st.sessions
  /\ remote' = st.remote
  /\ archive' = st.archive
  /\ local' = st.local
  /\ local_archive' = st.local_archive
  /\ temp_files' = st.temp_files

Log(st, e) == [st EXCEPT !.trace = Append(@, e)]

LogAll(st, es) == [st EXCEPT !.trace = @ \o es]

Returning(st, v) == [st EXCEPT !.ret = v]

Raising(st, x) == [st EXCEPT !.exc = x]

\* ---------------------------------------------------------------- _init_sftp
\* hostkeys.lookup(hostname): the keys cached for the host
lookup(store, host) == [i \in {j \in 1..Len(store) : store[j].host = host} |-> store[i].key]

IsUnknown(store, host) == DOMAIN lookup(store, host) = {}

\* the key the transport validates against: the first cached key of the host
CachedKey(store, host) == store[CHOOSE i \in DOMAIN lookup(store, host) : \A j \in DOMAIN lookup(store, host) : i <= j].key

ConnectOutcomes == {"ok", "ConnectionException", "CredentialException", "BadAuthenticationType", "Exception"}

ConnectMessage(x) ==
  CASE x = "ConnectionException" -> "Could not connect to server. Please check settings."
    [] x = "CredentialException" -> "Authentication failed. Please check credentials."
    [] x = "BadAuthenticationType" -> "Unsupported Authentication Type"
    [] OTHER -> "Connection error"

\* what the environment decides during one _init_sftp call
InitOutcomes == [conn : ConnectOutcomes, save : {"ok", "Exception"}, isdir : BOOLEAN, chdir : {"ok", "IOError"}]

\* a store writer that writes the new record twice
add_and_save_duplicate(st, loaded, host, key) == [st EXCEPT !.known_hosts = Append(Append(loaded, [host |-> host, key |-> key]), [host |-> host, key |-> key]), !.hosts_dir = TRUE]

\* sftp_hosts.add(...); os.mkdir(dirname) if absent; sftp_hosts.save(hosts_file)
\* `loaded` is the store CnOpts() read at the start of _init_sftp.
add_and_save(st, loaded, host, key) == [st EXCEPT !.known_hosts = Append(loaded, [host |-> host, key |-> key]), !.hosts_dir = TRUE]

\* a remote path step that hands the session out whatever the checks say
change_directory_unverified(e, st, p, o, sid) ==
  LET s0 == Log(st, Msg("info", "Connected successfully", 0, 0))
      s1 == IF e = "download" THEN Log(s0, Call("isdir", IF o.isdir THEN "True" ELSE "False", 0, 0, sid)) ELSE s0
  IN IF e = "download" /\ ~o.isdir
       THEN Returning(Log(s1, output_message("Remote path is not a directory.", 0, 0)), sid)
     ELSE IF o.chdir = "IOError"
       THEN Returning(Log(Log(s1, Call("chdir", "IOError", 0, 0, sid)), output_message("Remote path does not exist", 0, 0)), sid)
     ELSE Returning([Log(s1, Call("chdir", "ok", 0, 0, sid)) EXCEPT !.sessions[sid].cwd = TRUE], sid)

\* the part of _init_sftp after the try block: the working directory
change_directory(e, st, p, o, sid) ==
  LET s0 == Log(st, Msg("info", "Connected successfully", 0, 0))
      s1 == IF e = "download" THEN Log(s0, Call("isdir", IF o.isdir THEN "True" ELSE "False", 0, 0, sid)) ELSE s0
  IN IF e = "download" /\ ~o.isdir
       THEN Returning(Log(s1, output_message("Remote path is not a directory.", 0, 0)), 0)
     ELSE IF o.chdir = "IOError"
       THEN Returning(Log(Log(s1, Call("chdir", "IOError", 0, 0, sid)), output_message("Remote path does not exist", 0, 0)), 0)
     ELSE Returning([Log(s1, Call("chdir", "ok", 0, 0, sid)) EXCEPT !.sessions[sid].cwd = TRUE], sid)

\* an _init_sftp that caches the key of an unknown host before it connects
init_sftp_eager_save(e, st, p, o) ==
  LET loaded == st.known_hosts
      unknown == IsUnknown(loaded, p.hostname)
      s0 == IF unknown THEN [st EXCEPT !.known_hosts = Append(loaded, [host |-> p.hostname, key |-> ServerKey]), !.hosts_dir = TRUE] ELSE st
      s1 == IF unknown THEN Log(s0, Msg("warning", "Unkown host. Any host key will be accepted.", 0, 0)) ELSE s0
      res == IF o.conn = "ok" /\ ~unknown /\ CachedKey(loaded, p.hostname) # ServerKey THEN "Exception" ELSE o.conn
      sid == Len(st.sessions) + 1
      validation == IF unknown THEN <<"hostkeys=None">> ELSE <<"hostkeys">>
  IN IF res # "ok"
       THEN Returning(Log(Log(s1, Event("call", "connect", res, 0, 0, 0, validation)), output_message(ConnectMessage(res), 0, 0)), 0)
     ELSE
       LET s2 == [Log(s1, Event("call", "connect", "ok", 0, 0, sid, validation)) EXCEPT !.sessions = Append(@, [state |-> "open", cwd |-> FALSE, closes |-> 0])]
       IN IF ~unknown THEN change_directory(e, s2, p, o, sid)
          ELSE change_directory(e, Log(Log(s2, Msg("warning", "Connected to unknown host. Caching its hostkey to known_hosts.", 0, 0)), Call("save", "ok", 0, 0, 0)), p, o, sid)

\* an _init_sftp that disables key validation for every host
init_sftp_unchecked_key(e, st, p, o) ==
  LET loaded == st.known_hosts
      unknown == IsUnknown(loaded, p.hostname)
      s1 == IF unknown THEN Log(st, Msg("warning", "Unkown host. Any host key will be accepted.", 0, 0)) ELSE st
      sid == Len(st.sessions) + 1
  IN IF o.conn # "ok"
       THEN Returning(Log(Log(s1, Event("call", "connect", o.conn, 0, 0, 0, <<"hostkeys=None">>)), output_message(ConnectMessage(o.conn), 0, 0)), 0)
     ELSE
       LET s2 == [Log(s1, Event("call", "connect", "ok", 0, 0, sid, <<"hostkeys=None">>)) EXCEPT !.sessions = Append(@, [state |-> "open", cwd |-> FALSE, closes |-> 0])]
       IN IF ~unknown THEN change_directory(e, s2, p, o, sid)
          ELSE
            LET s3 == Log(s2, Msg("warning", "Connected to unknown host. Caching its hostkey to known_hosts.", 0, 0))
            IN IF o.save # "ok"
                 THEN Returning(Log(Log(s3, Call("save", o.save, 0, 0, 0)), output_message(ConnectMessage(o.save), 0, 0)), 0)
               ELSE change_directory(e, Log(add_and_save(s3, loaded, p.hostname, ServerKey), Call("save", "ok", 0, 0, 0)), p, o, sid)

\* an _init_sftp that adds and saves the key of every host it connects to
init_sftp_always_save(e, st, p, o) ==
  LET loaded == st.known_hosts
      unknown == IsUnknown(loaded, p.hostname)
      s1 == IF unknown THEN Log(st, Msg("warning", "Unkown host. Any host key will be accepted.", 0, 0)) ELSE st
      res == IF o.conn = "ok" /\ ~unknown /\ CachedKey(loaded, p.hostname) # ServerKey THEN "Exception" ELSE o.conn
      sid == Len(st.sessions) + 1
      validation == IF unknown THEN <<"hostkeys=None">> ELSE <<"hostkeys">>
  IN IF res # "ok"
       THEN Returning(Log(Log(s1, Event("call", "connect", res, 0, 0, 0, validation)), output_message(ConnectMessage(res), 0, 0)), 0)
     ELSE
       LET s2 == [Log(s1, Event("call", "connect", "ok", 0, 0, sid, validation)) EXCEPT !.sessions = Append(@, [state |-> "open", cwd |-> FALSE, closes |-> 0])]
           s3 == IF unknown THEN Log(s2, Msg("warning", "Connected to unknown host. Caching its hostkey to known_hosts.", 0, 0)) ELSE s2
       IN change_directory(e, Log(add_and_save(s3, loaded, p.hostname, ServerKey), Call("save", "ok", 0, 0, 0)), p, o, sid)

init_sftp(e, st, p, o) ==
  LET loaded == st.known_hosts
      unknown == IsUnknown(loaded, p.hostname)
      s1 == IF unknown THEN Log(st, Msg("warning", "Unkown host. Any host key will be accepted.", 0, 0)) ELSE st
      \* with key validation on, a server key that differs from the cached
      \* one makes pysftp.Connection raise (an SSHException)
      res == IF o.conn = "ok" /\ ~unknown /\ CachedKey(loaded, p.hostname) # ServerKey THEN "Exception" ELSE o.conn
      sid == Len(st.sessions) + 1
      validation == IF unknown THEN <<"hostkeys=None">> ELSE <<"hostkeys">>
  IN IF res # "ok"
       THEN Returning(Log(Log(s1, Event("call", "connect", res, 0, 0, 0, validation)), output_message(ConnectMessage(res), 0, 0)), 0)
     ELSE
       LET s2 == [Log(s1, Event("call", "connect", "ok", 0, 0, sid, validation)) EXCEPT !.sessions = Append(@, [state |-> "open", cwd |-> FALSE, closes |-> 0])]
       IN IF ~unknown THEN change_directory(e, s2, p, o, sid)
          ELSE
            LET s3 == Log(s2, Msg("warning", "Connected to unknown host. Caching its hostkey to known_hosts.", 0, 0))
            IN IF o.save # "ok"
                 THEN Returning(Log(Log(s3, Call("save", o.save, 0, 0, 0)), output_message(ConnectMessage(o.save), 0, 0)), 0)
               ELSE change_directory(e, Log(add_and_save(s3, loaded, p.hostname, ServerKey), Call("save", "ok", 0, 0, 0)), p, o, sid)

\* sftp_conn.close().  A session is closed by the close() calls of the code
\* only: what the runtime does with a Connection object nothing refers to any
\* more is not part of the model.
close(st, sid) == [Log(st, Call("close", "ok", 0, 0, sid)) EXCEPT !.sessions[sid].state = "closed", !.sessions[sid].closes = @ + 1]

\* ---------------------------------------------------------------- _process_file
\* what the environment decides while one remote file is processed:
\*   get:    "ok" | "IOError" (the local file was created, holds nothing) |
\*           "IOError_nofile" (the local file could not be created)
\*   exists, isdir: what the server answers for move_path
\*   rename, remove: "ok" | "IOError"
ProcOutcomes == [get : {"ok", "IOError", "IOError_nofile"}, exists : BOOLEAN, isdir : BOOLEAN, rename : {"ok", "IOError"}, remove : {"ok", "IOError"}]

\* the outcomes that differ in what the code observes under file handling fh
ProcOutcomesFor(mode, fh) ==
  {o \in ProcOutcomes :
     /\ (mode \in {"LIST_FILES", "NONE_MODE"} => o.get = "ok")
     /\ (mode # "DOWNLOAD_TO_BLOB" => o.get # "IOError_nofile")
     /\ (o.get = "IOError_nofile" => o.exists /\ o.remove = "ok")
     /\ (fh # "MOVE_FILES" => o.exists /\ o.isdir /\ o.rename = "ok")
     /\ (fh # "DELETE_FILES" => o.remove = "ok")
     /\ (~o.exists => o.isdir /\ o.rename = "ok")
     /\ (~o.isdir => o.rename = "ok")}

\* the record _process_file pushes: Filename, Size and the mode's own fields
Record(mode, what, f, k, payload) == Event("record", mode, what, f.filename, k, 0, <<f.size, payload, f.is_dir, f.is_file>>)

\* a get that leaves an empty local file whatever the remote file holds
get_result_empty(st, name, o, before) ==
  IF o.get = "IOError_nofile" THEN before ELSE File(<<>>)

\* sftp_conn.get(filename, localpath=out_fname): what is at out_fname afterwards
get_result(st, name, o, before) ==
  IF o.get = "ok" /\ st.remote[name].kind = "file" THEN File(st.remote[name].data)
  ELSE IF o.get = "IOError_nofile" THEN before
  ELSE File(<<>>)

get_outcome(st, name, o) == IF o.get = "ok" /\ st.remote[name].kind # "file" THEN "IOError" ELSE o.get

\* a file handling that moves the file whatever the checks of the target say
handle_file_moving_anyway(st, p, f, k, sid, o) ==
  IF p.file_handling = "MOVE_FILES" THEN
    IF p.move_path = None THEN Raising(st, "TypeError")
    ELSE
      LET s0 == IF ~o.exists
                  THEN Log(Log(st, Call("exists", "False", 0, k, sid)), Msg("warning", "The target folder does not exist.", 0, k))
                ELSE IF ~o.isdir
                  THEN Log(Log(Log(st, Call("exists", "True", 0, k, sid)), Call("isdir", "False", 0, k, sid)), Msg("warning", "The target folder is not a directory.", 0, k))
                ELSE Log(Log(st, Call("exists", "True", 0, k, sid)), Call("isdir", "True", 0, k, sid))
          ok == o.rename = "ok" /\ s0.remote[f.filename].kind # "absent"
      IN IF ok
           THEN Log([Log(s0, Call("rename", "ok", f.filename, k, sid)) EXCEPT !.archive[f.filename] = s0.remote[f.filename], !.remote[f.filename] = Absent], Msg("info", "File moved.", f.filename, k))
         ELSE Log(Log(s0, Call("rename", "IOError", f.filename, k, sid)), output_message("Error moving file", f.filename, k))
  ELSE IF p.file_handling = "DELETE_FILES" THEN
    LET ok == o.remove = "ok" /\ st.remote[f.filename].kind = "file"
    IN IF ok
         THEN Log([Log(st, Call("remove", "ok", f.filename, k, sid)) EXCEPT !.remote[f.filename] = Absent], Msg("info", "File deleted from server.", f.filename, k))
       ELSE Log(Log(st, Call("remove", "IOError", f.filename, k, sid)), output_message("Error deleting file", f.filename, k))
  ELSE st

\* a file handling that removes the remote file under KEEP_FILES as well
handle_file_removing_kept(st, p, f, k, sid, o) ==
  IF p.file_handling = "MOVE_FILES" THEN
    IF p.move_path = None THEN Raising(st, "TypeError")
    ELSE IF ~o.exists
      THEN Log(Log(st, Call("exists", "False", 0, k, sid)), Msg("warning", "The target folder does not exist.", 0, k))
    ELSE IF ~o.isdir
      THEN Log(Log(Log(st, Call("exists", "True", 0, k, sid)), Call("isdir", "False", 0, k, sid)), Msg("warning", "The target folder is not a directory.", 0, k))
    ELSE
      LET s1 == Log(Log(st, Call("exists", "True", 0, k, sid)), Call("isdir", "True", 0, k, sid))
          ok == o.rename = "ok" /\ s1.remote[f.filename].kind # "absent"
      IN IF ok
           THEN Log([Log(s1, Call("rename", "ok", f.filename, k, sid)) EXCEPT !.archive[f.filename] = s1.remote[f.filename], !.remote[f.filename] = Absent], Msg("info", "File moved.", f.filename, k))
         ELSE Log(Log(s1, Call("rename", "IOError", f.filename, k, sid)), output_message("Error moving file", f.filename, k))
  ELSE IF p.file_handling \in {"DELETE_FILES", "KEEP_FILES"} THEN
    LET ok == o.remove = "ok" /\ st.remote[f.filename].kind = "file"
    IN IF ok
         THEN Log([Log(st, Call("remove", "ok", f.filename, k, sid)) EXCEPT !.remote[f.filename] = Absent], Msg("info", "File deleted from server.", f.filename, k))
       ELSE Log(Log(st, Call("remove", "IOError", f.filename, k, sid)), output_message("Error deleting file", f.filename, k))
  ELSE st

\* "Handle file after it has been downloaded": lines 518-549
handle_file(st, p, f, k, sid, o) ==
  IF p.file_handling = "MOVE_FILES" THEN
    IF p.move_path = None THEN Raising(st, "TypeError")
    ELSE IF ~o.exists
      THEN Log(Log(st, Call("exists", "False", 0, k, sid)), Msg("warning", "The target folder does not exist.", 0, k))
    ELSE IF ~o.isdir
      THEN Log(Log(Log(st, Call("exists", "True", 0, k, sid)), Call("isdir", "False", 0, k, sid)), Msg("warning", "The target folder is not a directory.", 0, k))
    ELSE
      LET s1 == Log(Log(st, Call("exists", "True", 0, k, sid)), Call("isdir", "True", 0, k, sid))
          ok == o.rename = "ok" /\ s1.remote[f.filename].kind # "absent"
      IN IF ok
           THEN Log([Log(s1, Call("rename", "ok", f.filename, k, sid)) EXCEPT !.archive[f.filename] = s1.remote[f.filename], !.remote[f.filename] = Absent], Msg("info", "File moved.", f.filename, k))
         ELSE Log(Log(s1, Call("rename", "IOError", f.filename, k, sid)), output_message("Error moving file", f.filename, k))
  ELSE IF p.file_handling = "DELETE_FILES" THEN
    LET ok == o.remove = "ok" /\ st.remote[f.filename].kind = "file"
    IN IF ok
         THEN Log([Log(st, Call("remove", "ok", f.filename, k, sid)) EXCEPT !.remote[f.filename] = Absent], Msg("info", "File deleted from server.", f.filename, k))
       ELSE Log(Log(st, Call("remove", "IOError", f.filename, k, sid)), output_message("Error deleting file", f.filename, k))
  ELSE st

\* the download of _process_file, DOWNLOAD_TO_BLOB: lines 485-507
download_blob(st, p, f, k, sid, o) ==
  LET tmp == Len(st.temp_files) + 1
      s1 == [Log(st, Call("create_temp_file_name", "ok", tmp, k, 0)) EXCEPT !.temp_files = Append(@, "absent")]
      res == get_outcome(s1, f.filename, o)
      written == get_result(s1, f.filename, o, Absent)
      s2 == [Log(s1, Call("get", res, f.filename, k, sid)) EXCEPT !.temp_files[tmp] = written.kind]
      s3 == IF res = "ok" THEN s2 ELSE Log(s2, output_message("Error transferring file", f.filename, k))
  IN IF written.kind = "absent" THEN Raising(Log(s3, Call("open", "FileNotFoundError", tmp, k, 0)), "FileNotFoundError")
     ELSE Log(Log(s3, Call("open", "ok", tmp, k, 0)), Record("DOWNLOAD_TO_BLOB", "blob", f, k, written.data))

\* a DOWNLOAD_TO_PATH branch that calls get a second time after an IOError
download_path_retrying(st, p, f, k, sid, o) ==
  LET res == get_outcome(st, f.filename, o)
      s2 == Log(st, Call("get", res, f.filename, k, sid))
      s3 == IF res = "ok" THEN s2 ELSE Log(Log(s2, Call("get", res, f.filename, k, sid)), output_message("Error transferring file", f.filename, k))
  IN Log(s3, Record("DOWNLOAD_TO_PATH", "path", f, k, <<p.local_path, f.filename>>))

\* the download of _process_file, DOWNLOAD_TO_PATH
download_path(st, p, f, k, sid, o) ==
  LET res == get_outcome(st, f.filename, o)
      s2 == Log(st, Call("get", res, f.filename, k, sid))
      s3 == IF res = "ok" THEN s2 ELSE Log(s2, output_message("Error transferring file", f.filename, k))
  IN Log(s3, Record("DOWNLOAD_TO_PATH", "path", f, k, <<p.local_path, f.filename>>))

\* a _process_file that handles the remote file before it pushes the record
process_file_handling_first(st, p, f, k, sid, o) ==
  LET s0 == handle_file(st, p, f, k, sid, o)
  IN IF s0.exc # None THEN s0
     ELSE IF p.tool_mode = "LIST_FILES"
       THEN IF f.has_flags THEN Log(s0, Record("LIST_FILES", "list", f, k, <<>>)) ELSE Raising(s0, "KeyError")
     ELSE IF p.tool_mode = "DOWNLOAD_TO_BLOB" THEN download_blob(s0, p, f, k, sid, o)
     ELSE IF p.tool_mode = "DOWNLOAD_TO_PATH" THEN download_path(s0, p, f, k, sid, o)
     ELSE Raising(s0, "UnboundLocalError")

\* _process_file(sftp_conn, f, ...).  f.has_flags: whether the dict f has the
\* keys is_file / is_dir (pi_push_all_records builds them, ii_push_record
\* does not).
process_file(st, p, f, k, sid, o) ==
  LET s1 ==
        IF p.tool_mode = "LIST_FILES"
          THEN IF f.has_flags THEN Log(st, Record("LIST_FILES", "list", f, k, <<>>)) ELSE Raising(st, "KeyError")
        ELSE IF p.tool_mode = "DOWNLOAD_TO_BLOB" THEN download_blob(st, p, f, k, sid, o)
        ELSE IF p.tool_mode = "DOWNLOAD_TO_PATH" THEN download_path(st, p, f, k, sid, o)
        ELSE Raising(st, "UnboundLocalError")
  IN IF s1.exc # None THEN s1 ELSE handle_file(s1, p, f, k, sid, o)

\* ---------------------------------------------------------------- upload
\* what the environment decides while one upload record is processed
UpOutcomes == [put : {"ok", "IOError"}, remove : {"ok", "Exception"}, rename : {"ok", "Exception"}]

UpOutcomesFor(mode, fh) ==
  {o \in UpOutcomes :
     /\ (mode = "NONE_MODE" => o.put = "ok")
     /\ (~(mode = "UPLOAD_FILES" /\ fh = "DELETE_FILES") => o.remove = "ok")
     /\ (~(mode = "UPLOAD_FILES" /\ fh = "MOVE_FILES") => o.rename = "ok")}

\* a local source path: the upload directory and a file name in it
LocalPath(n) == <<"/data/", n>>

\* os.path.split(cur_fpath): (head, tail)
os_path_split(path) == <<path[1], path[2]>>

\* sftp_conn.exists(name) on the remote working directory
exists(st, name) == st.remote[name].kind # "absent"

\* a file handling of the upload plugin that deletes the uploaded file on the
\* server instead of the local source file
handle_local_on_server(st, p, cur_fpath, k, o) ==
  LET n == cur_fpath[2]
  IN IF p.file_handling = "DELETE_FILES" THEN
       IF o.remove = "ok" /\ st.remote[n].kind = "file"
         THEN [Log(st, Call("remove", "ok", n, k, 0)) EXCEPT !.remote[n] = Absent]
       ELSE Log(Log(st, Call("remove", "Exception", n, k, 0)), output_message("Could not delete", n, k))
     ELSE IF p.file_handling = "MOVE_FILES" THEN
       IF o.rename = "ok" /\ st.local[n].kind # "absent"
         THEN [Log(st, Call("os.rename", "ok", n, k, 0)) EXCEPT !.local_archive[n] = st.local[n], !.local[n] = Absent]
       ELSE Log(Log(st, Call("os.rename", "Exception", n, k, 0)), output_message("Could not move", n, k))
     ELSE st

\* the file handling of the upload plugin, applied to the local source file:
\* lines 431-443
handle_local(st, p, cur_fpath, k, o) ==
  LET n == cur_fpath[2]
  IN IF p.file_handling = "DELETE_FILES" THEN
       IF o.remove = "ok" /\ st.local[n].kind = "file"
         THEN [Log(st, Call("os.remove", "ok", n, k, 0)) EXCEPT !.local[n] = Absent]
       ELSE Log(Log(st, Call("os.remove", "Exception", n, k, 0)), output_message("Could not delete", n, k))
     ELSE IF p.file_handling = "MOVE_FILES" THEN
       IF o.rename = "ok" /\ st.local[n].kind # "absent"
         THEN [Log(st, Call("os.rename", "ok", n, k, 0)) EXCEPT !.local_archive[n] = st.local[n], !.local[n] = Absent]
       ELSE Log(Log(st, Call("os.rename", "Exception", n, k, 0)), output_message("Could not move", n, k))
     ELSE st

\* an UPLOAD_FILES branch that puts the file whatever the server holds
upload_files_overwriting(st, p, cur_fpath, k, sid, o) ==
  LET n == cur_fpath[2]
  IN IF st.local[n].kind = "absent"
       THEN Log(st, output_message("File does not exist.", n, k))
     ELSE IF st.local[n].kind # "file"
       THEN Log(st, output_message("File is actually a folder. Please provide a file name.", n, k))
     ELSE
       LET cur_fname == os_path_split(cur_fpath)[2]
           s1 == Log(st, Call("exists", IF exists(st, cur_fname) THEN "True" ELSE "False", cur_fname, k, sid))
           s2 == IF o.put = "ok"
                   THEN Log([Log(s1, Call("put", "ok", cur_fname, k, sid)) EXCEPT !.remote[cur_fname] = File(s1.local[n].data)], Msg("info", "successfully uploaded", cur_fname, k))
                 ELSE Log(Log(s1, Call("put", "IOError", cur_fname, k, sid)), output_message("File could not be uploaded", cur_fname, k))
       IN [handle_local(s2, p, cur_fpath, k, o) EXCEPT !.count = 1]

\* an UPLOAD_FILES branch that reports a missing local file and goes on
upload_files_unchecked(st, p, cur_fpath, k, sid, o) ==
  LET n == cur_fpath[2]
      s0 == IF st.local[n].kind = "absent" THEN Log(st, output_message("File does not exist.", n, k)) ELSE st
  IN IF st.local[n].kind = "dir"
       THEN Log(st, output_message("File is actually a folder. Please provide a file name.", n, k))
     ELSE
       LET cur_fname == os_path_split(cur_fpath)[2]
           s1 == Log(s0, Call("exists", IF exists(st, cur_fname) THEN "True" ELSE "False", cur_fname, k, sid))
       IN IF exists(st, cur_fname) /\ ~p.overwrite
            THEN Log(s1, Msg("warning", "File already exists. Skipped.", cur_fname, k))
          ELSE
            LET s2 == IF o.put = "ok" /\ st.local[n].kind = "file"
                        THEN Log([Log(s1, Call("put", "ok", cur_fname, k, sid)) EXCEPT !.remote[cur_fname] = File(s1.local[n].data)], Msg("info", "successfully uploaded", cur_fname, k))
                      ELSE Log(Log(s1, Call("put", "IOError", cur_fname, k, sid)), output_message("File could not be uploaded", cur_fname, k))
            IN [handle_local(s2, p, cur_fpath, k, o) EXCEPT !.count = 1]

\* an UPLOAD_FILES branch that applies the file handling to a skipped file
upload_files_handling_skipped(st, p, cur_fpath, k, sid, o) ==
  LET n == cur_fpath[2]
  IN IF st.local[n].kind = "absent"
       THEN Log(st, output_message("File does not exist.", n, k))
     ELSE IF st.local[n].kind # "file"
       THEN Log(st, output_message("File is actually a folder. Please provide a file name.", n, k))
     ELSE
       LET cur_fname == os_path_split(cur_fpath)[2]
           s1 == Log(st, Call("exists", IF exists(st, cur_fname) THEN "True" ELSE "False", cur_fname, k, sid))
       IN IF exists(st, cur_fname) /\ ~p.overwrite
            THEN handle_local(Log(s1, Msg("warning", "File already exists. Skipped.", cur_fname, k)), p, cur_fpath, k, o)
          ELSE
            LET s2 == IF o.put = "ok"
                        THEN Log([Log(s1, Call("put", "ok", cur_fname, k, sid)) EXCEPT !.remote[cur_fname] = File(s1.local[n].data)], Msg("info", "successfully uploaded", cur_fname, k))
                      ELSE Log(Log(s1, Call("put", "IOError", cur_fname, k, sid)), output_message("File could not be uploaded", cur_fname, k))
            IN [handle_local(s2, p, cur_fpath, k, o) EXCEPT !.count = 1]

\* ii_push_record of the upload plugin, UPLOAD_FILES branch: lines 404-443
upload_files(st, p, cur_fpath, k, sid, o) ==
  LET n == cur_fpath[2]
  IN IF st.local[n].kind = "absent"
       THEN Log(st, output_message("File does not exist.", n, k))
     ELSE IF st.local[n].kind # "file"
       THEN Log(st, output_message("File is actually a folder. Please provide a file name.", n, k))
     ELSE
       LET cur_fname == os_path_split(cur_fpath)[2]
           s1 == Log(st, Call("exists", IF exists(st, cur_fname) THEN "True" ELSE "False", cur_fname, k, sid))
       IN IF exists(st, cur_fname) /\ ~p.overwrite
            THEN Log(s1, Msg("warning", "File already exists. Skipped.", cur_fname, k))
          ELSE
            LET s2 == IF o.put = "ok"
                        THEN Log([Log(s1, Call("put", "ok", cur_fname, k, sid)) EXCEPT !.remote[cur_fname] = File(s1.local[n].data)], Msg("info", "successfully uploaded", cur_fname, k))
                      ELSE Log(Log(s1, Call("put", "IOError", cur_fname, k, sid)), output_message("File could not be uploaded", cur_fname, k))
            IN [handle_local(s2, p, cur_fpath, k, o) EXCEPT !.count = 1]

\* an UPLOAD_BLOBS branch that applies the file handling to a local file of
\* the record's name
upload_blobs_handling_local(st, p, cur_fname, cur_blob, k, sid, o) ==
  IF cur_fname = 0
    THEN Log(st, output_message("No filename provided. Cannot upload.", cur_fname, k))
  ELSE
    LET s1 == Log(st, Call("exists", IF exists(st, cur_fname) THEN "True" ELSE "False", cur_fname, k, sid))
    IN IF exists(st, cur_fname) /\ ~p.overwrite
         THEN Log(s1, Msg("warning", "File already exists. Skipped.", cur_fname, k))
       ELSE
         LET s2 == IF o.put = "ok"
                     THEN Log([Log(s1, Call("putfo", "ok", cur_fname, k, sid)) EXCEPT !.remote[cur_fname] = File(cur_blob)], Msg("info", "successfully uploaded", cur_fname, k))
                   ELSE Log(Log(s1, Call("putfo", "IOError", cur_fname, k, sid)), output_message("Error uploading", cur_fname, k))
         IN [handle_local(s2, p, LocalPath(cur_fname), k, o) EXCEPT !.count = 1]

\* ii_push_record of the upload plugin, UPLOAD_BLOBS branch: lines 444-464.
\* The file name 0 stands for the empty string.
upload_blobs(st, p, cur_fname, cur_blob, k, sid, o) ==
  IF cur_fname = 0
    THEN Log(st, output_message("No filename provided. Cannot upload.", cur_fname, k))
  ELSE
    LET s1 == Log(st, Call("exists", IF exists(st, cur_fname) THEN "True" ELSE "False", cur_fname, k, sid))
    IN IF exists(st, cur_fname) /\ ~p.overwrite
         THEN Log(s1, Msg("warning", "File already exists. Skipped.", cur_fname, k))
       ELSE
         LET s2 == IF o.put = "ok"
                     THEN Log([Log(s1, Call("putfo", "ok", cur_fname, k, sid)) EXCEPT !.remote[cur_fname] = File(cur_blob)], Msg("info", "successfully uploaded", cur_fname, k))
                   ELSE Log(Log(s1, Call("putfo", "IOError", cur_fname, k, sid)), output_message("Error uploading", cur_fname, k))
         IN [s2 EXCEPT !.count = 1]

\* a streaming download that does not ask whether the name is a file
download_record_unchecked(st, p, cur_fname, k, sid, o) ==
  IF ~exists(st, cur_fname)
    THEN Log(Log(st, Call("exists", "False", cur_fname, k, sid)), Msg("warning", "File does not exist. Skipped.", cur_fname, k))
  ELSE
    LET s1 == Log(Log(st, Call("exists", "True", cur_fname, k, sid)), Call("stat", "ok", cur_fname, k, sid))
        cur_f == [filename |-> cur_fname, size |-> Len(st.remote[cur_fname].data), has_flags |-> FALSE, is_file |-> FALSE, is_dir |-> FALSE]
        s2 == process_file(s1, p, cur_f, k, sid, o)
    IN IF s2.exc # None THEN s2 ELSE [s2 EXCEPT !.count = 1]

\* ---------------------------------------------------------------- streaming download
\* ii_push_record of the download plugin after the connection is there:
\* lines 651-684
download_record(st, p, cur_fname, k, sid, o) ==
  IF ~exists(st, cur_fname)
    THEN Log(Log(st, Call("exists", "False", cur_fname, k, sid)), Msg("warning", "File does not exist. Skipped.", cur_fname, k))
  ELSE IF st.remote[cur_fname].kind # "file"
    THEN Log(Log(Log(st, Call("exists", "True", cur_fname, k, sid)), Call("isfile", "False", cur_fname, k, sid)), Msg("warning", "File is actually a folder. Skipped.", cur_fname, k))
  ELSE
    LET s1 == Log(Log(Log(st, Call("exists", "True", cur_fname, k, sid)), Call("isfile", "True", cur_fname, k, sid)), Call("stat", "ok", cur_fname, k, sid))
        cur_f == [filename |-> cur_fname, size |-> Len(st.remote[cur_fname].data), has_flags |-> FALSE, is_file |-> FALSE, is_dir |-> FALSE]
        s2 == process_file(s1, p, cur_f, k, sid, o)
    IN IF s2.exc # None THEN s2 ELSE [s2 EXCEPT !.count = 1]

\* ---------------------------------------------------------------- configurations
\* AyxPlugin.__init__: the fields before pi_init
Constructed == [hostname |-> None, port |-> 22, username |-> None, key_filepath |-> None, remote_path |-> "/", move_path |-> None, tool_mode |-> "NONE_MODE", upload_mode |-> "NONE_MODE", file_handling |-> "NONE_HANDLING", local_path |-> None, incoming_field |-> None, blob_field |-> None, overwrite |-> FALSE, input_optional |-> FALSE]

\* a configuration every check of validate_settings accepts
ValidDownload == [Constructed EXCEPT !.hostname = "host", !.username = "user", !.remote_path = "/in/", !.tool_mode = "DOWNLOAD_TO_PATH", !.file_handling = "KEEP_FILES", !.local_path = "/out/", !.incoming_field = "FileName"]

ValidUpload == [Constructed EXCEPT !.hostname = "host", !.username = "user", !.remote_path = "/in/", !.upload_mode = "UPLOAD_FILES", !.file_handling = "KEEP_FILES", !.incoming_field = "FileName", !.blob_field = "Blob"]

\* the connection settings the GUI may hand over, on a valid configuration c
ConnectionVariants(c) ==
  { [c EXCEPT !.hostname = None], [c EXCEPT !.hostname = "sftp://host"], [c EXCEPT !.port = 0],
    [c EXCEPT !.username = None], [c EXCEPT !.remote_path = None], [c EXCEPT !.key_filepath = "/nokey"],
    [c EXCEPT !.key_filepath = "/keydir"], [c EXCEPT !.key_filepath = "/id_rsa"],
    [c EXCEPT !.hostname = None, !.username = None], [c EXCEPT !.incoming_field = None] }

\* pi_init of the download plugin: local_path is read in DOWNLOAD_TO_PATH only
DownloadConfigurations ==
  { [ValidDownload EXCEPT !.tool_mode = m, !.file_handling = h, !.move_path = mp, !.local_path = IF m = "DOWNLOAD_TO_PATH" THEN "/out/" ELSE None] :
      m \in ToolModes, h \in FileHandlings, mp \in {None, "/archive/"} }
  \cup { [ValidDownload EXCEPT !.local_path = lp] : lp \in {None, "/nodir/", "/afile/"} }
  \cup ConnectionVariants(ValidDownload)

UploadConfigurations ==
  { [ValidUpload EXCEPT !.upload_mode = m, !.file_handling = h, !.move_path = mp, !.overwrite = ow] :
      m \in UploadModes, h \in FileHandlings, mp \in {None, "/archive/"}, ow \in BOOLEAN }
  \cup { [ValidUpload EXCEPT !.file_handling = "MOVE_FILES", !.move_path = mp] : mp \in {"/nodir/", "/afile/"} }
  \cup { [ValidUpload EXCEPT !.upload_mode = "UPLOAD_BLOBS", !.blob_field = None] }
  \cup ConnectionVariants(ValidUpload)

\* settings that play no part in the mode are left at one value (LIST_FILES
\* does read move_path: _process_file handles the listed file all the same)
Relevant(c) ==
  /\ (c.move_path # None => c.file_handling = "MOVE_FILES")
  /\ (c.upload_mode = "UPLOAD_BLOBS" /\ c.file_handling = "MOVE_FILES" => c.move_path # None)

Configurations(e) == {c \in (IF e = "download" THEN DownloadConfigurations ELSE UploadConfigurations) : Relevant(c)}

\* ---------------------------------------------------------------- initial state
HostStores ==
  { <<FALSE, <<>>>>,
    <<TRUE, <<[host |-> "host", key |-> ServerKey]>>>>,
    <<TRUE, <<[host |-> "host", key |-> StaleKey]>>>> }

Nothing == [n \in Names |-> Absent]

\* whether a run with configuration c can get as far as connecting
MayConnect(e, c, u) == ~u /\ Checks(e, c) = <<>>

\* The files of a run: the remote working directory and, for UPLOAD_FILES,
\* the local source files (they are there in an update-only run as well).  The names are interchangeable (and the server
\* lists them in either order), so the layouts are taken up to renaming:
\* ordered by what is at the name on both sides.
KindRank(x) == IF x = "file" THEN 0 ELSE IF x = "dir" THEN 1 ELSE 2

EntryOf(x, bytes) == IF x = "file" THEN File(bytes) ELSE IF x = "dir" THEN Dir ELSE Absent

Layouts(e, c, u) ==
  LET RemoteKinds == IF e = "download" THEN {"absent", "dir", "file"} ELSE {"absent", "file"}
      LocalKinds == IF c.upload_mode = "UPLOAD_FILES" THEN {"absent", "dir", "file"} ELSE {"absent"}
      rank(x, n) == 3 * KindRank(x.remote[n]) + KindRank(x.local[n])
  IN IF ~MayConnect(e, c, FALSE) THEN { [remote |-> Nothing, local |-> Nothing] }
     ELSE { [remote |-> [n \in Names |-> EntryOf(x.remote[n], RemoteBytes(n))], local |-> [n \in Names |-> EntryOf(x.local[n], LocalBytes(n))]] :
              x \in {y \in [remote : [Names -> RemoteKinds], local : [Names -> LocalKinds]] : \A n, m \in Names : n < m => rank(y, n) <= rank(y, m)} }

\* The known_hosts file: read by _init_sftp only.
HostStoresFor(e, c, u) == IF MayConnect(e, c, u) THEN HostStores ELSE { <<FALSE, <<>>>> }

\* The state after AyxPlugin.__init__, with the environment of the run: the
\* configuration the engine will hand over, the files on both sides, the
\* known_hosts file.  What a run never reads is left at one value.
Init ==
  /\ engine \in {"download", "upload"}
  /\ str_xml \in Configurations(engine)
  /\ UpdateOnly \in (IF str_xml \in {ValidDownload, ValidUpload} THEN BOOLEAN ELSE {FALSE})
  /\ plugin = Constructed
  /\ ii = [in_field |-> None, sftp_conn |-> 0, file_counter |-> 0]
  /\ pc = "constructed"
  /\ file_list = <<>>
  /\ item_counter = -1
  /\ sftp_conn = 0
  /\ pushes = 0
  /\ closes = 0
  /\ \E hs \in HostStoresFor(engine, str_xml, UpdateOnly) : hosts_dir = hs[1] /\ known_hosts = hs[2]
  /\ sessions = <<>>
  /\ \E x \in Layouts(engine, str_xml, UpdateOnly) : remote = x.remote /\ local = x.local
  /\ archive = Nothing
  /\ local_archive = Nothing
  /\ temp_files = <<>>
  /\ uploaded = [n \in Names |-> [sent |-> FALSE, blob |-> <<>>]]
  /\ trace = <<>>

\* ---------------------------------------------------------------- pi_init
\* pi_init(str_xml): the settings of the GUI are stored and validated (not
\* silently); no incoming connection exists yet.
pi_init ==
  /\ pc = "constructed"
  /\ plugin' = str_xml
  /\ trace' = validate_settings(engine, str_xml, FALSE).msgs \o <<Return("pi_init", "None")>>
  /\ pc' = "initialized"
  /\ UNCHANGED <<uploaded, engine, UpdateOnly, str_xml, ii, file_list, item_counter, sftp_conn, pushes, closes, known_hosts, hosts_dir, sessions, remote, archive, local, local_archive, temp_files>>

\* pi_add_incoming_connection: the IncomingInterface is created
pi_add_incoming_connection ==
  /\ pc = "initialized"
  /\ plugin' = [plugin EXCEPT !.input_optional = TRUE]
  /\ ii' = [in_field |-> None, sftp_conn |-> 0, file_counter |-> 0]
  /\ pc' = "incoming"
  /\ Commit(Fresh)
  /\ UNCHANGED <<uploaded, engine, UpdateOnly, str_xml, file_list, item_counter, sftp_conn, pushes, closes>>

\* what ii_init finds in the incoming record layout: the field is missing, is
\* no string field (checked by the upload plugin only), the blob field is no
\* blob (upload plugin, UPLOAD_BLOBS only), or all is as required
FieldOutcomes(e, p) ==
  {"ok", "missing"}
  \cup (IF e = "upload" THEN {"not_string"} ELSE {})
  \cup (IF e = "upload" /\ p.upload_mode = "UPLOAD_BLOBS" /\ p.blob_field # None THEN {"not_blob"} ELSE {})

\* ii_init(record_info_in).  The engine streams no record into an interface
\* whose blob field cannot be read as a blob.
ii_init ==
  /\ pc = "incoming"
  /\ \E found \in FieldOutcomes(engine, plugin) :
       IF plugin.incoming_field = None
         THEN /\ trace' = <<output_message("No incoming field selected.", 0, 0), Return("ii_init", "False")>>
              /\ ii' = ii
              /\ pc' = "stream"
       ELSE IF found = "missing"
         THEN /\ trace' = <<output_message("Field was not found in the incoming data.", 0, 0), Return("ii_init", "False")>>
              /\ ii' = ii
              /\ pc' = "stream"
       ELSE IF found = "not_string"
         THEN /\ trace' = <<output_message("Field is not a string, so cannot contain a file name.", 0, 0), Return("ii_init", "False")>>
              /\ ii' = [ii EXCEPT !.in_field = plugin.incoming_field]
              /\ pc' = "stream"
       ELSE IF found = "not_blob"
         THEN /\ trace' = <<output_message("Field does not contain blobs.", 0, 0), Return("ii_init", "False")>>
              /\ ii' = [ii EXCEPT !.in_field = plugin.incoming_field]
              /\ pc' = "init_failed"
       ELSE /\ trace' = <<Return("ii_init", "True")>>
            /\ ii' = [ii EXCEPT !.in_field = plugin.incoming_field, !.file_counter = 0]
            /\ pc' = "stream"
  /\ UNCHANGED <<uploaded, engine, UpdateOnly, str_xml, plugin, file_list, item_counter, sftp_conn, pushes, closes, known_hosts, hosts_dir, sessions, remote, archive, local, local_archive, temp_files>>

\* ---------------------------------------------------------------- static run
\* the outcomes of _init_sftp that differ in what the code observes
InitOutcomesFor(e, store, host) ==
  {o \in InitOutcomes :
     /\ (o.conn # "ok" => o.save = "ok" /\ o.isdir /\ o.chdir = "ok")
     /\ (~IsUnknown(store, host) => o.save = "ok")
     /\ (o.save # "ok" => o.isdir /\ o.chdir = "ok")
     /\ (e # "download" => o.isdir)
     /\ (~o.isdir => o.chdir = "ok")}

\* sftp_conn.listdir_attr() with isfile / isdir per entry: lines 394-407.
\* The server returns the names in ascending or in descending order.
Listing(st, ascending) ==
  LET present == {n \in Names : st.remote[n].kind # "absent"}
      Entry(n) == [filename |-> n, size |-> Len(st.remote[n].data), has_flags |-> TRUE, is_file |-> st.remote[n].kind = "file", is_dir |-> st.remote[n].kind = "dir"]
      Rank(n) == Cardinality({m \in present : IF ascending THEN m < n ELSE m > n}) + 1
  IN [i \in 1..Cardinality(present) |-> Entry(CHOOSE n \in present : Rank(n) = i)]

\* a pi_push_all_records that does not ask whether the run is update-only
pi_push_all_records_ignoring_update_only ==
  /\ pc = "initialized"
  /\ IF engine = "upload" \/ ~validate_settings(engine, plugin, TRUE).ok
       THEN /\ Commit(Log(Fresh, Return("pi_push_all_records", "False")))
            /\ pc' = "done"
            /\ UNCHANGED <<file_list, item_counter, sftp_conn>>
     ELSE \E o \in InitOutcomesFor(engine, known_hosts, plugin.hostname), listed \in {"ascending", "descending", "IOError"} :
       LET s0 == Log(Fresh, Progress(0, 1))
           s1 == init_sftp(engine, s0, plugin, o)
       IN IF s1.ret = 0
            THEN /\ Commit(Log(s1, Return("pi_push_all_records", "False")))
                 /\ pc' = "done"
                 /\ UNCHANGED <<file_list, item_counter, sftp_conn>>
          ELSE IF listed = "IOError"
            THEN /\ Commit(Log(Log(s1, Call("listdir_attr", "IOError", 0, 0, s1.ret)), Return("pi_push_all_records", "IOError")))
                 /\ pc' = "raised"
                 /\ sftp_conn' = s1.ret
                 /\ UNCHANGED <<file_list, item_counter>>
          ELSE /\ Commit(Log(s1, Call("listdir_attr", "ok", 0, 0, s1.ret)))
               /\ file_list' = Listing(s1, listed = "ascending")
               /\ item_counter' = -1
               /\ sftp_conn' = s1.ret
               /\ pc' = "loop"
  /\ UNCHANGED <<uploaded, engine, UpdateOnly, str_xml, plugin, ii, pushes, closes>>

\* pi_push_all_records up to the loop: lines 371-410
pi_push_all_records ==
  /\ pc = "initialized"
  /\ IF engine = "upload" \/ UpdateOnly \/ ~validate_settings(engine, plugin, TRUE).ok
       THEN /\ Commit(Log(Fresh, Return("pi_push_all_records", "False")))
            /\ pc' = "done"
            /\ UNCHANGED <<file_list, item_counter, sftp_conn>>
     ELSE \E o \in InitOutcomesFor(engine, known_hosts, plugin.hostname), listed \in {"ascending", "descending", "IOError"} :
       LET s0 == Log(Fresh, Progress(0, 1))
           s1 == init_sftp(engine, s0, plugin, o)
       IN IF s1.ret = 0
            THEN /\ Commit(Log(s1, Return("pi_push_all_records", "False")))
                 /\ pc' = "done"
                 /\ UNCHANGED <<file_list, item_counter, sftp_conn>>
          ELSE IF listed = "IOError"
            THEN /\ Commit(Log(Log(s1, Call("listdir_attr", "IOError", 0, 0, s1.ret)), Return("pi_push_all_records", "IOError")))
                 /\ pc' = "raised"
                 /\ sftp_conn' = s1.ret
                 /\ UNCHANGED <<file_list, item_counter>>
          ELSE /\ Commit(Log(s1, Call("listdir_attr", "ok", 0, 0, s1.ret)))
               /\ file_list' = Listing(s1, listed = "ascending")
               /\ item_counter' = -1
               /\ sftp_conn' = s1.ret
               /\ pc' = "loop"
  /\ UNCHANGED <<uploaded, engine, UpdateOnly, str_xml, plugin, ii, pushes, closes>>

\* a loop that closes the session after every file it has processed
pi_push_all_records_item_closing ==
  /\ pc = "loop"
  /\ item_counter + 1 < Len(file_list)
  /\ item_counter' = item_counter + 1
  /\ LET f == file_list[item_counter + 2]
         k == item_counter + 2
         s0 == Log(Env, Progress(item_counter + 1, Len(file_list)))
     IN IF ~f.is_file /\ plugin.tool_mode # "LIST_FILES"
          THEN /\ Commit(Log(s0, Msg("warning", "is not a file. Skipped.", f.filename, k)))
               /\ pc' = "loop"
        ELSE \E o \in ProcOutcomesFor(plugin.tool_mode, plugin.file_handling) :
          LET s1 == process_file(s0, plugin, f, k, sftp_conn, o)
          IN IF s1.exc # None
               THEN /\ Commit(Log(s1, Return("pi_push_all_records", s1.exc)))
                    /\ pc' = "raised"
             ELSE /\ Commit(close(s1, sftp_conn))
                  /\ pc' = "loop"
  /\ UNCHANGED <<uploaded, engine, UpdateOnly, str_xml, plugin, ii, file_list, sftp_conn, pushes, closes>>

\* a loop that walks the listing from its end
pi_push_all_records_item_reversed ==
  /\ pc = "loop"
  /\ item_counter + 1 < Len(file_list)
  /\ item_counter' = item_counter + 1
  /\ LET f == file_list[Len(file_list) - (item_counter + 1)]
         k == item_counter + 2
         s0 == Log(Env, Progress(item_counter + 1, Len(file_list)))
     IN IF ~f.is_file /\ plugin.tool_mode # "LIST_FILES"
          THEN /\ Commit(Log(s0, Msg("warning", "is not a file. Skipped.", f.filename, k)))
               /\ pc' = "loop"
        ELSE \E o \in ProcOutcomesFor(plugin.tool_mode, plugin.file_handling) :
          LET s1 == process_file(s0, plugin, f, k, sftp_conn, o)
          IN IF s1.exc # None
               THEN /\ Commit(Log(s1, Return("pi_push_all_records", s1.exc)))
                    /\ pc' = "raised"
             ELSE /\ Commit(s1)
                  /\ pc' = "loop"
  /\ UNCHANGED <<uploaded, engine, UpdateOnly, str_xml, plugin, ii, file_list, sftp_conn, pushes, closes>>

\* one iteration of the loop of pi_push_all_records: lines 414-426
pi_push_all_records_item ==
  /\ pc = "loop"
  /\ item_counter + 1 < Len(file_list)
  /\ item_counter' = item_counter + 1
  /\ LET f == file_list[item_counter + 2]
         k == item_counter + 2
         s0 == Log(Env, Progress(item_counter + 1, Len(file_list)))
     IN IF ~f.is_file /\ plugin.tool_mode # "LIST_FILES"
          THEN /\ Commit(Log(s0, Msg("warning", "is not a file. Skipped.", f.filename, k)))
               /\ pc' = "loop"
        ELSE \E o \in ProcOutcomesFor(plugin.tool_mode, plugin.file_handling) :
          LET s1 == process_file(s0, plugin, f, k, sftp_conn, o)
          IN IF s1.exc # None
               THEN /\ Commit(Log(s1, Return("pi_push_all_records", s1.exc)))
                    /\ pc' = "raised"
             ELSE /\ Commit(s1)
                  /\ pc' = "loop"
  /\ UNCHANGED <<uploaded, engine, UpdateOnly, str_xml, plugin, ii, file_list, sftp_conn, pushes, closes>>

\* an end of pi_push_all_records that does not report the final progress
pi_push_all_records_end_unreported ==
  /\ pc = "loop"
  /\ item_counter + 1 = Len(file_list)
  /\ Commit(Log(Log(close(Env, sftp_conn), Msg("info", "Log Tool input", 0, 0)), Return("pi_push_all_records", "True")))
  /\ pc' = "done"
  /\ UNCHANGED <<uploaded, engine, UpdateOnly, str_xml, plugin, ii, file_list, item_counter, sftp_conn, pushes, closes>>

\* pi_push_all_records after the loop: lines 428-440
pi_push_all_records_end ==
  /\ pc = "loop"
  /\ item_counter + 1 = Len(file_list)
  /\ Commit(Log(Log(Log(close(Env, sftp_conn), Msg("info", "Log Tool input", 0, 0)), Progress(1, 1)), Return("pi_push_all_records", "True")))
  /\ pc' = "done"
  /\ UNCHANGED <<uploaded, engine, UpdateOnly, str_xml, plugin, ii, file_list, item_counter, sftp_conn, pushes, closes>>

\* ---------------------------------------------------------------- streaming run
\* the records an upstream tool may push: a file name (0: the empty string)
\* and, for UPLOAD_BLOBS, a blob
Records(e, p) ==
  IF e = "upload" /\ p.upload_mode = "UPLOAD_BLOBS"
    THEN [name : 0..MaxItems, blob : Blobs]
  ELSE [name : Names, blob : {<<>>}]

\* whether ii_push_record gets as far as the transfer of the record's file
reaches_transfer(e, st, p, rec) ==
  IF e = "download" THEN st.remote[rec.name].kind = "file"
  ELSE IF p.upload_mode = "UPLOAD_FILES" THEN st.local[rec.name].kind = "file" /\ (exists(st, rec.name) => p.overwrite)
  ELSE IF p.upload_mode = "UPLOAD_BLOBS" THEN rec.name # 0 /\ (exists(st, rec.name) => p.overwrite)
  ELSE FALSE

\* what the environment decides while the record is processed; a record that
\* is skipped before its transfer asks the environment nothing
ProcOutcomesAt(e, st, p, rec) ==
  IF e = "download" /\ reaches_transfer(e, st, p, rec) THEN ProcOutcomesFor(p.tool_mode, p.file_handling) ELSE ProcOutcomesFor("NONE_MODE", "NONE_HANDLING")

UpOutcomesAt(e, st, p, rec) ==
  IF e = "upload" /\ reaches_transfer(e, st, p, rec) THEN UpOutcomesFor(p.upload_mode, p.file_handling) ELSE UpOutcomesFor("NONE_MODE", "NONE_HANDLING")

\* the part of ii_push_record that follows the connection
push_item(e, st, p, rec, k, sid, o, u) ==
  IF e = "download" THEN download_record(st, p, rec.name, k, sid, o)
  ELSE IF p.upload_mode = "UPLOAD_FILES" THEN upload_files(st, p, LocalPath(rec.name), k, sid, u)
  ELSE IF p.upload_mode = "UPLOAD_BLOBS" THEN upload_blobs(st, p, rec.name, rec.blob, k, sid, u)
  ELSE [st EXCEPT !.count = 1]

\* a check that lets LIST_FILES through
list_accepted(e, p) == FALSE

\* the check of ii_push_record on the tool mode: download lines 641-643
list_rejected(e, p) == e = "download" /\ p.tool_mode = "LIST_FILES"

\* ii_push_record(in_record) of either plugin: download lines 632-684,
\* upload lines 387-468
ii_push_record ==
  /\ pc = "stream"
  /\ pushes < MaxRecords
  /\ pushes' = pushes + 1
  /\ LET k == pushes + 1
         v == validate_settings(engine, plugin, FALSE)
     IN IF UpdateOnly
          THEN /\ Commit(Log(Fresh, Return("ii_push_record", "False")))
               /\ UNCHANGED <<ii, pc, uploaded>>
        ELSE IF ~v.ok
          THEN /\ Commit(Log(LogAll(Fresh, v.msgs), Return("ii_push_record", "False")))
               /\ UNCHANGED <<ii, pc, uploaded>>
        ELSE IF ii.in_field = None
          THEN /\ Commit(Log(Fresh, Return("ii_push_record", "False")))
               /\ UNCHANGED <<ii, pc, uploaded>>
        ELSE IF list_rejected(engine, plugin)
          THEN /\ Commit(Log(Log(Fresh, output_message("List Files is not supported when filenames are provided through an incoming connection.", 0, 0)), Return("ii_push_record", "False")))
               /\ UNCHANGED <<ii, pc, uploaded>>
        ELSE \E io \in (IF ii.sftp_conn = 0 THEN InitOutcomesFor(engine, known_hosts, plugin.hostname) ELSE {CHOOSE x \in InitOutcomes : x.conn = "ok" /\ x.save = "ok" /\ x.isdir /\ x.chdir = "ok"}) :
          LET s1 == IF ii.sftp_conn = 0 THEN init_sftp(engine, Fresh, plugin, io) ELSE Returning(Fresh, ii.sftp_conn)
          IN IF s1.ret = 0
               THEN /\ Commit(Log(s1, Return("ii_push_record", "False")))
                    /\ ii' = [ii EXCEPT !.sftp_conn = 0]
                    /\ pc' = pc
                    /\ uploaded' = uploaded
             ELSE \E rec \in Records(engine, plugin) : \E o \in ProcOutcomesAt(engine, s1, plugin, rec), u \in UpOutcomesAt(engine, s1, plugin, rec) :
               LET s2 == push_item(engine, s1, plugin, rec, k, s1.ret, o, u)
                   stored == engine = "upload" /\ plugin.upload_mode = "UPLOAD_BLOBS" /\ reaches_transfer(engine, s1, plugin, rec) /\ u.put = "ok"
               IN /\ uploaded' = IF stored THEN [uploaded EXCEPT ![rec.name] = [sent |-> TRUE, blob |-> rec.blob]] ELSE uploaded
                  /\ IF s2.exc # None
                       THEN /\ Commit(Log(s2, Return("ii_push_record", s2.exc)))
                            /\ ii' = [ii EXCEPT !.sftp_conn = s1.ret]
                            /\ pc' = "raised"
                     ELSE /\ Commit(Log(s2, Return("ii_push_record", "True")))
                          /\ ii' = [ii EXCEPT !.sftp_conn = s1.ret, !.file_counter = @ + s2.count]
                          /\ pc' = pc
  /\ UNCHANGED <<engine, UpdateOnly, str_xml, plugin, file_list, item_counter, sftp_conn, closes>>

\* an ii_close that keeps its reference to the session
ii_close_keeping_reference ==
  /\ pc \in {"stream", "closed"}
  /\ closes < 2
  /\ closes' = closes + 1
  /\ LET s1 == IF ii.sftp_conn # 0 THEN close(Fresh, ii.sftp_conn) ELSE Fresh
         s2 == IF engine = "download" THEN Log(s1, Msg("info", "Log Tool input", 0, 0)) ELSE s1
     IN Commit(Log(s2, Return("ii_close", "None")))
  /\ ii' = ii
  /\ pc' = "closed"
  /\ UNCHANGED <<uploaded, engine, UpdateOnly, str_xml, plugin, file_list, item_counter, sftp_conn, pushes>>

\* ii_close(): download lines 694-708, upload lines 477-483.  The engine
\* signals the end of the stream; a second signal is tolerated.
ii_close ==
  /\ pc \in {"stream", "closed"}
  /\ closes < 2
  /\ closes' = closes + 1
  /\ LET s1 == IF ii.sftp_conn # 0 THEN close(Fresh, ii.sftp_conn) ELSE Fresh
         s2 == IF engine = "download" THEN Log(s1, Msg("info", "Log Tool input", 0, 0)) ELSE s1
     IN Commit(Log(s2, Return("ii_close", "None")))
  /\ ii' = [ii EXCEPT !.sftp_conn = 0]
  /\ pc' = "closed"
  /\ UNCHANGED <<uploaded, engine, UpdateOnly, str_xml, plugin, file_list, item_counter, sftp_conn, pushes>>

\* ---------------------------------------------------------------- two tools
\* A workflow that runs the download tool after the upload tool has finished:
\* the engine constructs the download plugin (AyxPlugin.__init__) against the
\* server, the known_hosts file and the local files the upload tool has left.
\* The download tool is configured for DOWNLOAD_TO_BLOB, keeping or deleting
\* the files, with settings that pass its validation; the upload tool has stored at least one blob.
next_tool ==
  /\ engine = "upload" /\ pc = "closed" /\ closes = 1
  /\ \E n \in Names : uploaded[n].sent
  /\ engine' = "download"
  /\ str_xml' \in {c \in Configurations("download") : c.tool_mode = "DOWNLOAD_TO_BLOB" /\ c.file_handling \in {"KEEP_FILES", "DELETE_FILES"} /\ Checks("download", c) = <<>>}
  /\ UpdateOnly' = FALSE
  /\ plugin' = Constructed
  /\ ii' = [in_field |-> None, sftp_conn |-> 0, file_counter |-> 0]
  /\ pc' = "constructed"
  /\ file_list' = <<>>
  /\ item_counter' = -1
  /\ sftp_conn' = 0
  /\ pushes' = 0
  /\ closes' = 0
  /\ trace' = <<>>
  /\ UNCHANGED <<known_hosts, hosts_dir, sessions, remote, archive, local, local_archive, temp_files, uploaded>>

\* ---------------------------------------------------------------- properties
\* the positions of the trace that hold a call of one of the primitives ops
Calls(t, ops) == {i \in DOMAIN t : t[i].ev = "call" /\ t[i].kind \in ops}

\* the positions of the trace that hold a message of the given type
Messages(t, kind) == {i \in DOMAIN t : t[i].ev = "msg" /\ t[i].kind = kind}

\* the handler whose return is the last event of the trace
Returned(handler) == trace # <<>> /\ trace[Len(trace)].ev = "return" /\ trace[Len(trace)].kind = handler

\* C1: in the download modes, an item whose get fails with a transfer I/O
\* error is not handled afterwards: no remove and no rename of that item's
\* remote file takes effect.
C1_NoHandlingAfterFailedGet ==
  engine = "download" =>
    \A i \in Calls(trace, {"get"}), j \in Calls(trace, {"remove", "rename"}) :
      trace[i].what # "ok" /\ trace[j].k = trace[i].k => trace[j].what # "ok"

\* C2: in UPLOAD_FILES, after a failed put the local source file is still
\* at its original path (the file handling is applied after a successful put
\* only).
C2_LocalFileKeptAfterFailedPut ==
  engine = "upload" =>
    \A i \in Calls(trace, {"put"}) : trace[i].what # "ok" => local[trace[i].item].kind = "file"

\* C3: when pi_push_all_records has returned or raised, every session the run
\* opened has been closed exactly once.
C3_StaticRunClosesSessionOnce ==
  Returned("pi_push_all_records") =>
    \A i \in Calls(trace, {"connect"}) : trace[i].what = "ok" => sessions[trace[i].sess].closes = 1

\* C4: after _init_sftp has failed on the remote path (not a directory, or
\* chdir failed), no open session remains.
C4_NoOpenSessionAfterRemotePathFailure ==
  (\E i \in Messages(trace, "error") : trace[i].what \in {"Remote path is not a directory.", "Remote path does not exist"}) =>
    \A s \in DOMAIN sessions : sessions[s].state # "open"

\* C5: with tool mode LIST_FILES no remote remove and no remote rename is
\* issued, whatever the file handling setting.
C5_ListModeIssuesNoHandling ==
  engine = "download" /\ plugin.tool_mode = "LIST_FILES" => Calls(trace, {"remove", "rename"}) = {}

\* the events of the trace about the item with ordinal k
About(k) == {i \in DOMAIN trace : trace[i].k = k}

\* what C6 asks of a skipped item k: one message, a warning; no get, no record
SkippedAsNotAFile(k) ==
  /\ \E i \in About(k) : trace[i].ev = "msg" /\ trace[i].kind = "warning" /\ trace[i].what \in {"is not a file. Skipped.", "File is actually a folder. Skipped."}
  /\ \A i \in About(k) : trace[i].ev = "msg" => trace[i].kind = "warning"
  /\ \A i \in About(k) : ~(trace[i].ev = "call" /\ trace[i].kind = "get") /\ trace[i].ev # "record"

\* C6: in the download modes other than LIST_FILES, an item that is not a
\* file is skipped with a warning, never with an error; no get is issued for
\* it, and the run goes on (the static loop is not left by an exception, the
\* streaming call returns True).
C6_NotAFileIsSkipped ==
  engine = "download" /\ plugin.tool_mode # "LIST_FILES" =>
    /\ \A k \in 1..(item_counter + 1) : ~file_list[k].is_file =>
         SkippedAsNotAFile(k) /\ (pc = "raised" => k < item_counter + 1)
    /\ \A i \in Calls(trace, {"exists"}) : trace[i].item \in Names /\ remote[trace[i].item].kind = "dir" =>
         SkippedAsNotAFile(trace[i].k) /\ pc = "stream" /\ trace[Len(trace)] = Return("ii_push_record", "True")

\* a static download in which a directory was skipped and a later entry of
\* the listing was downloaded
C6_Witness ==
  /\ engine = "download" /\ plugin.tool_mode # "LIST_FILES"
  /\ \E k \in 1..(item_counter + 1) : ~file_list[k].is_file /\ (\E i \in DOMAIN trace : trace[i].ev = "record" /\ trace[i].k > k)

\* C7: a failed transfer of one item does not abort the run: no exception
\* leaves the handler in which a get, put or putfo failed.
C7_TransferFailureDoesNotAbort ==
  (\E i \in Calls(trace, {"get", "put", "putfo"}) : trace[i].what # "ok") => pc # "raised"

\* C8: in both upload modes, a record that reaches the remote existence check
\* for a name the server holds, with overwrite off, is skipped with a warning,
\* no put / putfo is called and the remote directory is unchanged; with
\* overwrite on the put / putfo is called.
C8_OverwritePolicy ==
  [][engine = "upload" /\ pushes' = pushes + 1 =>
       \A i \in Calls(trace', {"exists"}) :
         LET n == trace'[i].item
         IN IF remote[n].kind # "absent" /\ ~plugin.overwrite
              THEN /\ \E j \in Messages(trace', "warning") : trace'[j].what = "File already exists. Skipped." /\ trace'[j].item = n
                   /\ Calls(trace', {"put", "putfo"}) = {}
                   /\ remote' = remote
            ELSE plugin.overwrite => \E j \in Calls(trace', {"put", "putfo"}) : trace'[j].item = n /\ j > i]_vars

\* an upload, overwrite off, of a name the server holds: skipped
C8_Witness ==
  /\ engine = "upload" /\ ~plugin.overwrite
  /\ \E i \in Calls(trace, {"exists"}) : trace[i].what = "True" /\ remote[trace[i].item].kind = "file"
  /\ \E j \in Messages(trace, "warning") : trace[j].what = "File already exists. Skipped."

\* the position of the successful chdir that ends a successful _init_sftp
Connected(t) == {i \in Calls(t, {"chdir"}) : t[i].what = "ok"}

\* C9: a successful _init_sftp to a host the store does not know emits exactly
\* two warnings, one before and one after the connect, and leaves the store
\* with exactly one record more, the one of that host.
C9_UnknownHostTwoWarningsOneRecord ==
  [][IsUnknown(known_hosts, plugin.hostname) /\ Connected(trace') # {} =>
       \A c \in Connected(trace'), i \in Calls(trace', {"connect"}) :
         /\ Cardinality({j \in Messages(trace', "warning") : j < c}) = 2
         /\ \E j \in Messages(trace', "warning") : j < i /\ trace'[j].what = "Unkown host. Any host key will be accepted."
         /\ \E j \in Messages(trace', "warning") : i < j /\ j < c /\ trace'[j].what = "Connected to unknown host. Caching its hostkey to known_hosts."
         /\ known_hosts' = Append(known_hosts, [host |-> plugin.hostname, key |-> ServerKey])
         /\ Cardinality(DOMAIN lookup(known_hosts', plugin.hostname)) = 1]_vars

\* a successful connection to a host that was unknown
C9_Witness ==
  /\ Connected(trace) # {}
  /\ \E i \in Calls(trace, {"connect"}) : trace[i].what = "ok" /\ trace[i].data = <<"hostkeys=None">>
  /\ ~IsUnknown(known_hosts, plugin.hostname)

\* C10: when the transport connection to an unknown host fails, the store is
\* left as it was and the host is still unknown.
C10_FailedConnectKeepsStore ==
  [][IsUnknown(known_hosts, plugin.hostname) /\ (\E i \in Calls(trace', {"connect"}) : trace'[i].what # "ok") =>
       known_hosts' = known_hosts /\ hosts_dir' = hosts_dir /\ IsUnknown(known_hosts', plugin.hostname)]_vars

\* a second streaming call that could not connect to the unknown host either
C10_Witness ==
  /\ pushes = 2
  /\ \E i \in Calls(trace, {"connect"}) : trace[i].what # "ok" /\ trace[i].data = <<"hostkeys=None">>
  /\ IsUnknown(known_hosts, plugin.hostname)


\* a step in which a handler that may call _init_sftp starts
StartsHandler == pc = "initialized" \/ pushes' = pushes + 1

\* the positions of the trace that hold a call, whatever the primitive
AnyCall(t) == {i \in DOMAIN t : t[i].ev = "call"}

\* the positions of the trace that hold an output record
Records_(t) == {i \in DOMAIN t : t[i].ev = "record"}

\* C11: for a host the store knows, _init_sftp connects with key validation
\* on; when the cached key is not the key the server presents, the connection
\* fails: no session comes to exist, no SFTP call and no record follows, and
\* the store is not written.
C11_CachedKeyGoverns ==
  [][StartsHandler /\ ~IsUnknown(known_hosts, plugin.hostname) =>
       \A i \in Calls(trace', {"connect"}) :
         /\ trace'[i].data = <<"hostkeys">>
         /\ CachedKey(known_hosts, plugin.hostname) # ServerKey =>
              /\ trace'[i].what # "ok"
              /\ sessions' = sessions
              /\ AnyCall(trace') = {i}
              /\ Records_(trace') = {}
              /\ known_hosts' = known_hosts /\ hosts_dir' = hosts_dir]_vars

\* a connection to a known host refused because of its cached key
C11_Witness ==
  /\ ~IsUnknown(known_hosts, plugin.hostname) /\ CachedKey(known_hosts, plugin.hostname) = StaleKey
  /\ \E i \in Calls(trace, {"connect"}) : trace[i].what = "Exception" /\ trace[i].data = <<"hostkeys">>

\* C12: the store never holds more than one record of a host; a successful
\* _init_sftp leaves exactly one record of the host; a handler that starts
\* with the host known does not write the store.
C12_PersistIdempotent ==
  [][/\ \A h \in REGEX_HOSTNAME : Cardinality(DOMAIN lookup(known_hosts', h)) <= 1
     /\ StartsHandler /\ Connected(trace') # {} => Cardinality(DOMAIN lookup(known_hosts', plugin.hostname)) = 1
     /\ ~IsUnknown(known_hosts, plugin.hostname) =>
          known_hosts' = known_hosts /\ (StartsHandler => Calls(trace', {"save"}) = {})]_vars

\* the second successful transport connection of one stream (the first one
\* cached the key, then failed on the remote path): one record of the host
C12_Witness ==
  /\ Len(sessions) = 2
  /\ \E i \in Calls(trace, {"connect"}) : trace[i].what = "ok" /\ trace[i].data = <<"hostkeys">>
  /\ Cardinality(DOMAIN lookup(known_hosts, plugin.hostname)) = 1

\* C13: while the settings do not pass validate_settings, no step makes a
\* call (no connection attempt, no SFTP or os primitive), emits a record or
\* changes a file, a session or the store.
C13_InvalidSettingsRefuse ==
  [][Checks(engine, plugin) # <<>> =>
       /\ AnyCall(trace') = {} /\ Records_(trace') = {}
       /\ UNCHANGED <<known_hosts, hosts_dir, sessions, remote, archive, local, local_archive, temp_files>>]_vars

\* a second streaming call refused with the messages of the failing checks
C13_Witness ==
  /\ Checks(engine, plugin) # <<>> /\ pushes = 2
  /\ Returned("ii_push_record") /\ trace[Len(trace)].what = "False"
  /\ Messages(trace, "error") # {}

\* C14: in streaming mode no handler but ii_push_record attempts a
\* connection, and once an ii_push_record has attempted one, the next
\* ii_push_record of the stream attempts none.
C14_ConnectsLazilyOnce ==
  [][/\ pushes' = pushes /\ pc' \in {"incoming", "stream", "init_failed", "closed"} => Calls(trace', {"connect"}) = {}
     /\ pushes' = pushes + 1 /\ Returned("ii_push_record") /\ Calls(trace, {"connect"}) # {} =>
          Calls(trace', {"connect"}) = {}]_vars

\* C15: when ii_close has returned, every session opened during the stream
\* has been closed exactly once and none is open.
C15_StreamEndClosesEverySession ==
  Returned("ii_close") => \A s \in DOMAIN sessions : sessions[s].state = "closed" /\ sessions[s].closes = 1

\* C16: the second ii_close of a stream calls no close, returns normally, and
\* leaves every session closed at most once.
C16_SecondCloseIsNoOp ==
  closes = 2 /\ Returned("ii_close") =>
    /\ Calls(trace, {"close"}) = {}
    /\ trace[Len(trace)].what = "None"
    /\ \A s \in DOMAIN sessions : sessions[s].closes <= 1

\* a second ii_close on a stream whose session the first one closed
C16_Witness ==
  /\ closes = 2 /\ Returned("ii_close")
  /\ \E s \in DOMAIN sessions : sessions[s].closes = 1 /\ sessions[s].state = "closed" /\ sessions[s].cwd

\* C17: in the download plugin with tool_mode = LIST_FILES, every
\* ii_push_record returns False without any call (no connection attempt, no
\* session) and without a record; unless the call is refused even earlier
\* (UpdateOnly, settings that fail validation, no incoming field), the
\* refusal is reported by the error message about List Files.
C17_ListRefusedInStream ==
  [][pushes' = pushes + 1 /\ engine = "download" /\ plugin.tool_mode = "LIST_FILES" =>
       /\ AnyCall(trace') = {} /\ Records_(trace') = {}
       /\ sessions' = sessions /\ ii'.sftp_conn = 0
       /\ trace'[Len(trace')] = Return("ii_push_record", "False")
       /\ ~UpdateOnly /\ Checks(engine, plugin) = <<>> /\ ii.in_field # None =>
            trace' = <<output_message("List Files is not supported when filenames are provided through an incoming connection.", 0, 0), Return("ii_push_record", "False")>>
            /\ Messages(trace', "error") = {1}]_vars

\* a record pushed in LIST_FILES mode and refused with the error message
C17_Witness ==
  /\ engine = "download" /\ plugin.tool_mode = "LIST_FILES" /\ pushes = 2
  /\ Returned("ii_push_record") /\ trace[Len(trace)].what = "False"
  /\ Messages(trace, "error") = {1} /\ Len(trace) = 2
  /\ Checks(engine, plugin) = <<>>

\* C18: in a static run with tool_mode = LIST_FILES no get is called, every
\* entry of the listing that the loop has reached has exactly one record,
\* which carries the entry's name, size, is_dir and is_file, and when
\* pi_push_all_records is left the records are as many as the entries.
C18_ListYieldsOneRecordPerEntry ==
  engine = "download" /\ plugin.tool_mode = "LIST_FILES" /\ pc \in {"loop", "done", "raised"} /\ Calls(trace, {"listdir_attr"}) # {} =>
    /\ Calls(trace, {"get"}) = {}
    /\ \A k \in 1..(item_counter + 1) :
         /\ Cardinality({i \in Records_(trace) : trace[i].k = k}) = 1
         /\ \A i \in Records_(trace) : trace[i].k = k =>
              trace[i] = Record("LIST_FILES", "list", file_list[k], k, <<>>)
    /\ Returned("pi_push_all_records") => Cardinality(Records_(trace)) = Len(file_list)

\* the positions of the trace at which the server answers, for item k, that
\* move_path does not exist or is not a directory
TargetRefused(t) ==
  {i \in Calls(t, {"exists", "isdir"}) : t[i].item = 0 /\ t[i].k # 0 /\ t[i].what = "False"}

\* C19: in the download plugin with file_handling = MOVE_FILES, when the
\* server answers for an item that move_path does not exist or is not a
\* directory, the item's record has been emitted before, a warning about the
\* target folder follows, no rename and no remove is called for the item,
\* and the item is still at its place on the server.
C19_MoveWithoutTargetKeepsSource ==
  engine = "download" /\ plugin.file_handling = "MOVE_FILES" =>
    \A i \in TargetRefused(trace) :
      LET k == trace[i].k
      IN /\ Cardinality({r \in Records_(trace) : r < i /\ trace[r].k = k}) = 1
         /\ i + 1 \in Messages(trace, "warning")
         /\ trace[i + 1].k = k
         /\ trace[i + 1].what \in {"The target folder does not exist.", "The target folder is not a directory."}
         /\ \A j \in Calls(trace, {"rename", "remove"}) : trace[j].k # k
         /\ \A r \in Records_(trace) : trace[r].k = k => remote[trace[r].item].kind # "absent"

\* a file downloaded with MOVE_FILES whose target folder does not exist
C19_Witness ==
  /\ engine = "download" /\ plugin.file_handling = "MOVE_FILES"
  /\ \E i \in TargetRefused(trace) :
       /\ trace[i].kind = "exists"
       /\ \E g \in Calls(trace, {"get"}) : g < i /\ trace[g].k = trace[i].k /\ trace[g].what = "ok"
       /\ \E r \in Records_(trace) : r < i /\ trace[r].k = trace[i].k /\ remote[trace[r].item].kind = "file"

\* the positions of the trace at which the cleanup of an item fails (the
\* remove or rename of its source) after the item's transfer has succeeded
CleanupFailed(t) ==
  {i \in Calls(t, {"remove", "rename", "os.remove", "os.rename"}) :
     /\ t[i].what # "ok"
     /\ \E g \in Calls(t, {"get", "put"}) : g < i /\ t[g].k = t[i].k /\ t[g].what = "ok"}

\* C20: when the cleanup of an item fails after its transfer has succeeded,
\* the failure is reported by a warning and by no error message, the
\* transferred file stays where the transfer put it, and the handler goes on
\* after the report (it does not raise there).
C20_CleanupFailureOnlyWarns ==
  \A i \in CleanupFailed(trace) :
    /\ i + 1 \in Messages(trace, "warning")
    /\ \A j \in Messages(trace, "error") : trace[j].k # trace[i].k
    /\ engine = "upload" => remote[trace[i].item].kind = "file"
    /\ engine = "download" => \E r \in Records_(trace) : r < i /\ trace[r].k = trace[i].k
    /\ i + 2 \in DOMAIN trace /\ trace[i + 2].ev = "return" => trace[i + 2].what = "True"

\* the positions of the next trace that the step has added: all of them when
\* a handler starts, those after the current trace inside the static loop
Added == {i \in DOMAIN trace' : pc = "loop" => i > Len(trace)}

\* C21: a rename of a source file into move_path is issued only after the
\* target has been checked in the same step.  The download plugin asks the
\* server exists(move_path) and isdir(move_path) for the item right before
\* the rename; the upload plugin's ii_push_record has passed
\* validate_settings, which asks os.path.exists and os.path.isdir of
\* move_path.  A rename that succeeds puts the file under its own name into
\* the target and leaves nothing at the source.
C21_RenameFollowsTargetCheck ==
  [][\A i \in Added : trace'[i].ev = "call" /\ trace'[i].kind \in {"rename", "os.rename"} =>
       LET c == trace'[i]
       IN /\ c.kind = "rename" =>
               /\ i - 2 \in Added
               /\ trace'[i - 2] = Call("exists", "True", 0, c.k, c.sess)
               /\ trace'[i - 1] = Call("isdir", "True", 0, c.k, c.sess)
               /\ c.what = "ok" => archive'[c.item] = remote[c.item] /\ remote'[c.item] = Absent /\ remote[c.item] # Absent
          /\ c.kind = "os.rename" =>
               /\ pushes' = pushes + 1
               /\ validate_settings(engine, plugin, FALSE).ok
               /\ plugin.move_path # None
               /\ os_path_exists(plugin.move_path) /\ os_path_isdir(plugin.move_path)
               /\ c.what = "ok" => local_archive'[c.item] = local[c.item] /\ local'[c.item] = Absent /\ local[c.item] # Absent]_vars

\* a file moved on the server after its download, and a local file moved
\* after its upload
C21_Witness ==
  \/ engine = "download" /\ \E i \in Calls(trace, {"rename"}) : trace[i].what = "ok" /\ archive[trace[i].item].kind = "file" /\ Calls(trace, {"get"}) # {}
  \/ engine = "upload" /\ \E i \in Calls(trace, {"os.rename"}) : trace[i].what = "ok" /\ local_archive[trace[i].item].kind = "file"

\* C22: when the download plugin, in DOWNLOAD_TO_BLOB mode, gets a file that
\* the upload plugin has stored before with a successful putfo of the blob B
\* (UPLOAD_BLOBS), the blob of the record it emits is B, and the record's
\* size is the length of B.
C22_BlobRoundTrip ==
  engine = "download" =>
    \A i \in Records_(trace) :
      /\ trace[i].kind = "DOWNLOAD_TO_BLOB"
      /\ uploaded[trace[i].item].sent
      /\ \E g \in Calls(trace, {"get"}) : g < i /\ trace[g].k = trace[i].k /\ trace[g].what = "ok"
      => trace[i].data[2] = uploaded[trace[i].item].blob /\ trace[i].data[1] = Len(uploaded[trace[i].item].blob)

\* a blob of two bytes uploaded, then downloaded
C22_Witness ==
  /\ engine = "download"
  /\ \E i \in Records_(trace) :
       /\ trace[i].kind = "DOWNLOAD_TO_BLOB" /\ uploaded[trace[i].item] = [sent |-> TRUE, blob |-> <<7, 8>>]
       /\ trace[i].data[2] = <<7, 8>>
       /\ \E g \in Calls(trace, {"get"}) : g < i /\ trace[g].k = trace[i].k /\ trace[g].what = "ok"

\* the messages by which the upload plugin reports an item that fails the
\* local check
LocalCheckFailed == {"File does not exist.", "File is actually a folder. Please provide a file name.", "No filename provided. Cannot upload."}

\* the calls the upload plugin makes for an item
ItemCalls(t) == Calls(t, {"exists", "put", "putfo", "os.remove", "os.rename"})

\* C23: in the upload plugin, every call made for an item (remote existence
\* check, put, putfo, os.remove, os.rename) is for an item that passes the
\* local check: a regular local file in UPLOAD_FILES, a non-empty file name
\* in UPLOAD_BLOBS.  An ii_push_record that reports a failing item makes no
\* such call, changes no file on either side, returns True and keeps the
\* open session, so that the stream goes on.
C23_LocalCheckFailureSkips ==
  [][pushes' = pushes + 1 /\ engine = "upload" =>
       /\ \A i \in ItemCalls(trace') :
            /\ trace'[i].item \in Names
            /\ plugin.upload_mode = "UPLOAD_FILES" => local[trace'[i].item].kind = "file"
       /\ \A i \in Messages(trace', "error") : trace'[i].what \in LocalCheckFailed =>
            /\ plugin.upload_mode = "UPLOAD_FILES" => local[trace'[i].item].kind # "file"
            /\ plugin.upload_mode = "UPLOAD_BLOBS" => trace'[i].item = 0
            /\ ItemCalls(trace') = {}
            /\ UNCHANGED <<remote, local, local_archive, archive, uploaded>>
            /\ trace'[Len(trace')] = Return("ii_push_record", "True")
            /\ pc' = "stream"
            /\ ii'.sftp_conn \in DOMAIN sessions' /\ sessions'[ii'.sftp_conn].state = "open"]_vars

\* the second item of a stream fails the local check after the first one was
\* uploaded
C23_Witness ==
  /\ engine = "upload" /\ pushes = 2 /\ Returned("ii_push_record")
  /\ \E i \in Messages(trace, "error") : trace[i].what \in LocalCheckFailed
  /\ \E n \in Names : remote[n] = File(LocalBytes(n)) \/ uploaded[n].sent

\* the messages by which pi_init has reported the settings that fail
\* validation (pi_init validates before an incoming connection exists)
ReportedByInit == Checks(engine, [plugin EXCEPT !.input_optional = FALSE])

\* C24: a fatal condition is reported by exactly one error message.  pi_init
\* emits one error message per failing check of the settings, and no later
\* handler emits one of these messages again; a handler that attempts the
\* connection and returns False (connect failure, remote path not a
\* directory or not reachable) has emitted exactly one error message.
C24_FatalConditionReportedOnce ==
  [][/\ pc = "constructed" => Cardinality(Messages(trace', "error")) = Len(Checks(engine, str_xml))
     /\ pc # "constructed" =>
          \A i \in Messages(trace', "error") : \A j \in DOMAIN ReportedByInit : trace'[i].what # ReportedByInit[j]
     /\ StartsHandler /\ Calls(trace', {"connect"}) # {} /\ trace'[Len(trace')].what = "False" =>
          Cardinality(Messages(trace', "error")) = 1]_vars

\* the warnings and errors emitted while an item is processed
IssueMessages(t) == {i \in DOMAIN t : t[i].ev = "msg" /\ t[i].kind \in {"warning", "error"} /\ t[i].k # 0}

\* the transfer and cleanup calls of an item that fail
FailedItemCalls(t) ==
  {i \in Calls(t, {"get", "put", "putfo", "remove", "rename", "os.remove", "os.rename"}) : t[i].k # 0 /\ t[i].what # "ok"}

\* C25: every issue of an item is reported by exactly one message, which
\* names the item's file: a failed transfer or cleanup call of the item, and
\* a move target that is refused, is followed at once by one warning or
\* error for that item; no two such messages follow each other; and every
\* such message names a file (but for the item that has no file name).
C25_OneMessagePerItemIssue ==
  /\ \A i \in FailedItemCalls(trace) \cup TargetRefused(trace) :
       i + 1 \in IssueMessages(trace) /\ trace[i + 1].k = trace[i].k
  /\ \A j \in IssueMessages(trace) :
       /\ j + 1 \notin IssueMessages(trace)
       /\ trace[j].item = 0 => trace[j].what = "No filename provided. Cannot upload."

\* the calls made on a session once _init_sftp has handed it out: the
\* listing, the calls of an item, the close
SessionUse(t) == {i \in AnyCall(t) : t[i].sess # 0 /\ (t[i].k # 0 \/ t[i].kind \in {"listdir_attr", "close"})}

\* the positions at which the remote path is refused: isdir(remote_path)
\* answers False, or chdir(remote_path) raises IOError
RemotePathRefused(t) ==
  {i \in Calls(t, {"isdir", "chdir"}) : t[i].k = 0 /\ t[i].sess # 0 /\ t[i].what \in {"False", "IOError"}}

C27_TempFilesCleanedUp ==
  \A t \in DOMAIN temp_files : temp_files[t] = "absent"

\* whether the Move handling applies to the mode of the configuration p
MoveApplies(e, p) ==
  /\ p.file_handling = "MOVE_FILES"
  /\ IF e = "download" THEN p.tool_mode \in {"DOWNLOAD_TO_BLOB", "DOWNLOAD_TO_PATH"} ELSE p.upload_mode = "UPLOAD_FILES"

\* C28: with Move handling, a target that is empty, missing or not a
\* directory makes validation fail and no transfer is performed: an empty
\* move_path, and in the upload plugin a local move_path that does not exist
\* or is not a directory, fails a check of validate_settings; settings that
\* fail a check lead to no get / put / putfo; and in the download plugin no
\* file is transferred in a run in which the server answers that move_path
\* does not exist or is not a directory.
C28_MoveTargetValidated ==
  /\ MoveApplies(engine, plugin) /\ plugin.move_path = None => Checks(engine, plugin) # <<>>
  /\ MoveApplies(engine, plugin) /\ engine = "upload" /\ plugin.move_path # None /\ ~os_path_isdir(plugin.move_path) =>
       Checks(engine, plugin) # <<>>
  /\ Checks(engine, plugin) # <<>> => Calls(trace, {"get", "put", "putfo"}) = {}
  /\ MoveApplies(engine, plugin) /\ engine = "download" /\ TargetRefused(trace) # {} =>
       Calls(trace, {"get"}) = {}

\* the place of the file name n in the snapshot of the static run
PlaceOf(n) == CHOOSE j \in DOMAIN file_list : file_list[j].filename = n

\* C29: a static run lists the remote directory at most once and calls
\* nothing on a name that is not in that snapshot; every record is the
\* record of an entry of the snapshot, each entry has at most one, and the
\* records follow each other in the order of the snapshot (the order in
\* which listdir_attr returned the entries).
C29_RecordsFollowListing ==
  engine = "download" /\ pushes = 0 /\ pc \in {"loop", "done", "raised"} =>
    /\ Cardinality(Calls(trace, {"listdir_attr"})) <= 1
    /\ \A i \in AnyCall(trace) : trace[i].item \in Names /\ trace[i].sess # 0 =>
         \E j \in DOMAIN file_list : file_list[j].filename = trace[i].item
    /\ \A r \in Records_(trace) :
         /\ \E j \in DOMAIN file_list : file_list[j].filename = trace[r].item
         /\ trace[r].data[1] = file_list[PlaceOf(trace[r].item)].size
    /\ \A r1, r2 \in Records_(trace) : r1 < r2 => PlaceOf(trace[r1].item) < PlaceOf(trace[r2].item)

\* a run over a listing that the server returned in descending order of the
\* names, with a record for each of its two entries
C29_Witness ==
  /\ engine = "download" /\ pushes = 0 /\ pc = "done" /\ Len(file_list) = 2
  /\ file_list[1].filename > file_list[2].filename
  /\ Cardinality(Records_(trace)) = 2

\* the transfer calls of a trace
Transfers(t) == Calls(t, {"get", "put", "putfo"})

\* C30: no item (k: its place in the listing of a static run, the ordinal of
\* its incoming record in a stream) is the subject of more than one transfer
\* call (get, put, putfo) or of more than one output record, and everything
\* a call of ii_push_record does for an item is done for the item of the
\* record it was called with.
C30_OneTransferPerItem ==
  /\ \A i, j \in Transfers(trace) : trace[i].k = trace[j].k => i = j
  /\ \A i, j \in Records_(trace) : trace[i].k = trace[j].k => i = j
  /\ \A i \in Transfers(trace) \cup Records_(trace) : trace[i].k # 0
  /\ pushes > 0 => \A i \in DOMAIN trace : trace[i].k \in {0, pushes}

\* the second record of a stream: one get that fails, no second get, and one
\* output record
C30_Witness ==
  /\ engine = "download" /\ pushes = 2 /\ Returned("ii_push_record")
  /\ \E i \in Transfers(trace) : trace[i].k = 2 /\ trace[i].what # "ok"
  /\ \E i \in Records_(trace) : trace[i].k = 2

\* the calls that delete or move a file: on the server, on the local disk
RemoteHandling == {"remove", "rename"}

LocalHandling == {"os.remove", "os.rename"}

\* C31: with file_handling = KEEP_FILES no step of a run, in any mode of
\* either plugin, issues a remove or a rename (on the server or on the local
\* disk), and every source file is afterwards where it was: the remote
\* entries for the download plugin, the local files for the upload plugin.
C31_KeepIsNoOp ==
  [][plugin'.file_handling = "KEEP_FILES" =>
       /\ Calls(trace', RemoteHandling \cup LocalHandling) = {}
       /\ engine = "download" => remote' = remote /\ archive' = archive
       /\ engine = "upload" => local' = local /\ local_archive' = local_archive]_vars

\* a file was transferred under KEEP_FILES (downloaded, or uploaded from its
\* path) and is still at its place
C31_Witness ==
  /\ plugin.file_handling = "KEEP_FILES"
  /\ \E i \in Transfers(trace) :
       /\ trace[i].what = "ok" /\ trace[i].kind \in {"get", "put"}
       /\ IF engine = "download" THEN remote[trace[i].item].kind = "file" ELSE local[trace[i].item].kind = "file"

\* C32: a call of ii_push_record in UPLOAD_BLOBS mode, whatever file_handling
\* and move_path are, reads no local file (no put), deletes and moves none
\* (no os.remove, no os.rename; the local files are as before), and all it
\* does for the item is the remote existence check and the putfo: the only
\* remote entry that changes is the one of the record's name, which then
\* holds the bytes of the record's blob.
C32_BlobUploadHasNoPostHandling ==
  [][engine = "upload" /\ plugin.upload_mode = "UPLOAD_BLOBS" /\ pushes' = pushes + 1 =>
       /\ Calls(trace', LocalHandling \cup RemoteHandling \cup {"put"}) = {}
       /\ local' = local /\ local_archive' = local_archive /\ archive' = archive /\ temp_files' = temp_files
       /\ \A i \in AnyCall(trace') : trace'[i].k # 0 => trace'[i].kind \in {"exists", "putfo"}
       /\ \A n \in Names : remote'[n] # remote[n] =>
            /\ \E i \in Calls(trace', {"putfo"}) : trace'[i].item = n /\ trace'[i].what = "ok"
            /\ uploaded'[n].sent /\ remote'[n] = File(uploaded'[n].blob)]_vars

\* a blob stored under MOVE_FILES with a move_path
C32_Witness ==
  /\ engine = "upload" /\ plugin.upload_mode = "UPLOAD_BLOBS"
  /\ plugin.file_handling = "MOVE_FILES" /\ plugin.move_path # None
  /\ \E i \in Calls(trace, {"putfo"}) :
       trace[i].what = "ok" /\ remote[trace[i].item] = File(<<7, 8>>)

\* the calls of the SFTP primitives on a session: the listing, and whatever
\* is called while an item is processed
Primitives(t) ==
  {i \in Calls(t, {"listdir_attr", "stat", "exists", "isfile", "isdir", "get", "put", "putfo", "remove", "rename"}) :
     t[i].k # 0 \/ t[i].kind = "listdir_attr"}

\* C33: every SFTP primitive a step invokes is invoked on a session that
\* was established and whose working directory is the remote path, that was
\* not closed before the step and is not closed earlier in the step; after a
\* connect that failed no primitive is invoked in that handler and no session
\* is kept for the next one.
C33_PrimitivesOnReadySession ==
  [][/\ \A i \in Added : i \in Primitives(trace') =>
          LET s == trace'[i].sess
          IN /\ s \in DOMAIN sessions' /\ sessions'[s].cwd
             /\ s \in DOMAIN sessions => sessions[s].state = "open"
             /\ \A j \in Calls(trace', {"close"}) : trace'[j].sess = s => j > i
     /\ (\E i \in Calls(trace', {"connect"}) : trace'[i].what # "ok") =>
          Primitives(trace') = {} /\ ii'.sftp_conn = 0]_vars

\* a static run that has downloaded a file on its session and closed it
C33_Witness ==
  /\ Returned("pi_push_all_records")
  /\ \E i \in Calls(trace, {"get"}), j \in Calls(trace, {"close"}) :
       /\ trace[i].sess = trace[j].sess /\ i < j
       /\ sessions[trace[i].sess].state = "closed"

\* C34: in the download plugin every remove and every rename of a remote
\* file, and every check of the move target, comes after the output record
\* of the same item in the trace of the handler.
C34_RecordBeforeHandling ==
  engine = "download" =>
    \A j \in Calls(trace, RemoteHandling \cup {"exists", "isdir"}) :
      trace[j].kind \in RemoteHandling \/ (trace[j].item = 0 /\ trace[j].k # 0) =>
        \E i \in Records_(trace) :
          /\ i < j /\ trace[i].k = trace[j].k
          /\ trace[j].kind \in RemoteHandling => trace[i].item = trace[j].item

\* a file was downloaded, its record pushed, and the file then removed from
\* the server
C34_Witness ==
  /\ engine = "download" /\ plugin.tool_mode \in {"DOWNLOAD_TO_PATH", "DOWNLOAD_TO_BLOB"}
  /\ \E j \in Calls(trace, {"remove"}) :
       /\ trace[j].what = "ok" /\ remote[trace[j].item].kind = "absent"
       /\ \E i \in Records_(trace) : i < j /\ trace[i].item = trace[j].item

\* the warnings that tell that an item is skipped: a listed entry that is no
\* file, a streamed name the server does not hold or holds as a directory, an
\* upload of a name the server holds already
SkipWarnings == {"is not a file. Skipped.", "File does not exist. Skipped.", "File is actually a folder. Skipped.", "File already exists. Skipped."}

Skipped(t) == {i \in Messages(t, "warning") : t[i].what \in SkipWarnings}

\* C35: for an item that is skipped no remove and no rename is issued, on
\* the server or on the local disk, no transfer is called and no record is
\* pushed; a local file whose upload is skipped is still at its path.
C35_SkippedItemIsNotHandled ==
  \A i \in Skipped(trace) :
    /\ \A j \in Calls(trace, RemoteHandling \cup LocalHandling) \cup Transfers(trace) \cup Records_(trace) : trace[j].k # trace[i].k
    /\ engine = "upload" /\ plugin.upload_mode = "UPLOAD_FILES" =>
         local[trace[i].item].kind = "file" /\ local_archive[trace[i].item].kind = "absent"
    /\ engine = "download" => remote[trace[i].item].kind # "file"

\* an upload from a path that is skipped under DELETE_FILES or MOVE_FILES
C35_Witness ==
  /\ engine = "upload" /\ plugin.upload_mode = "UPLOAD_FILES"
  /\ plugin.file_handling \in {"DELETE_FILES", "MOVE_FILES"}
  /\ \E i \in Skipped(trace) : local[trace[i].item].kind = "file"

\* C36: the upload plugin issues no remote remove or rename and moves
\* nothing into the remote move_path; the download plugin issues no os.remove
\* and no os.rename and leaves the local files as they are; a remove or
\* rename of the download plugin is about the file of the item being
\* processed (the one its get and its record are about), and a remote entry
\* changes in a step only by a remove or rename of that name in that step.
C36_HandlingOnSourceSideOnly ==
  [][/\ engine = "upload" => Calls(trace', RemoteHandling) = {} /\ archive' = archive
     /\ engine = "download" =>
          /\ Calls(trace', LocalHandling) = {} /\ local' = local /\ local_archive' = local_archive
          /\ \A j \in Calls(trace', RemoteHandling) :
               /\ trace'[j].item \in Names
               /\ \A i \in Calls(trace', {"get", "stat", "isfile"}) \cup Records_(trace') :
                    trace'[i].k = trace'[j].k => trace'[i].item = trace'[j].item
          /\ \A n \in Names : remote'[n] # remote[n] \/ archive'[n] # archive[n] =>
               \E j \in Added : j \in Calls(trace', RemoteHandling) /\ trace'[j].item = n /\ trace'[j].what = "ok"]_vars

\* an upload that has deleted its local source file and left the uploaded
\* file on the server
C36_Witness ==
  /\ engine = "upload" /\ plugin.file_handling = "DELETE_FILES"
  /\ \E i \in Calls(trace, {"put"}), j \in Calls(trace, {"os.remove"}) :
       /\ trace[i].what = "ok" /\ trace[j].what = "ok" /\ trace[i].item = trace[j].item
       /\ remote[trace[i].item].kind = "file" /\ local[trace[i].item].kind = "absent"

\* the positions of the trace that hold a progress report
Reports(t) == {i \in DOMAIN t : t[i].ev = "progress"}

\* C37: the progress reports of a static run are fractions num / den with
\* den > 0 and 0 <= num <= den, none smaller than an earlier one; the first
\* is 0, and the last of a run that returned True is 1.  A run over an empty
\* listing returns True with the reports 0 and 1 and without a record.
C37_ProgressIsMonotone ==
  engine = "download" /\ pushes = 0 =>
    /\ \A i \in Reports(trace) :
         /\ trace[i].data[2] > 0 /\ 0 <= trace[i].data[1] /\ trace[i].data[1] <= trace[i].data[2]
         /\ (\A j \in Reports(trace) : i <= j) => trace[i].data[1] = 0
         /\ \A j \in Reports(trace) : i < j => trace[i].data[1] * trace[j].data[2] <= trace[j].data[1] * trace[i].data[2]
    /\ Returned("pi_push_all_records") /\ trace[Len(trace)].what = "True" =>
         \E i \in Reports(trace) : trace[i].data[1] = trace[i].data[2] /\ \A j \in Reports(trace) : j <= i
    /\ pc \in {"loop", "done"} /\ Calls(trace, {"listdir_attr"}) # {} /\ file_list = <<>> =>
         /\ Records_(trace) = {}
         /\ \A i \in Reports(trace) : trace[i].data \in {<<0, 1>>, <<1, 1>>}
         /\ pc = "done" => trace[Len(trace)] = Return("pi_push_all_records", "True")

\* a completed static run over two entries: the reports 0, 0/2, 1/2 and 1
C37_Witness ==
  /\ engine = "download" /\ Returned("pi_push_all_records") /\ trace[Len(trace)].what = "True"
  /\ Len(file_list) = 2
  /\ \E i, j \in Reports(trace) : trace[i].data = <<0, 2>> /\ trace[j].data = <<1, 2>> /\ i < j
  /\ Cardinality(Reports(trace)) = 4

\* C38: no call of ii_push_record of the download plugin reaches the
\* LIST_FILES branch of _process_file, which reads is_file and is_dir: the
\* call never ends in a KeyError and pushes no LIST_FILES record, and in
\* LIST_FILES mode it calls nothing for the record (no existence check, no
\* stat, no transfer).
C38_ListBranchUnreachableFromStream ==
  engine = "download" /\ pushes > 0 /\ Returned("ii_push_record") =>
    /\ trace[Len(trace)].what # "KeyError"
    /\ \A i \in Records_(trace) : trace[i].kind # "LIST_FILES" /\ plugin.tool_mode # "LIST_FILES"
    /\ plugin.tool_mode = "LIST_FILES" => \A i \in DOMAIN trace : trace[i].k = 0 /\ trace[i].ev # "call"

\* the first record of a stream into a download plugin in LIST_FILES mode
\* whose settings are valid and whose incoming field was found
C38_Witness ==
  /\ engine = "download" /\ plugin.tool_mode = "LIST_FILES" /\ pushes = 1
  /\ ii.in_field # None /\ validate_settings(engine, plugin, TRUE).ok /\ ~UpdateOnly
  /\ Returned("ii_push_record")

\* C39: in an update-only run no handler of either plugin attempts a
\* connection or calls anything on the server or on the local disk, none
\* pushes a record, and the files on both sides, the temporary files and the
\* known_hosts file stay as they are: pi_push_all_records and every
\* ii_push_record return False at once.
C39_UpdateOnlyTouchesNothing ==
  [][UpdateOnly =>
       /\ AnyCall(trace') = {} /\ Records_(trace') = {}
       /\ sessions' = <<>> /\ ii'.sftp_conn = 0 /\ sftp_conn' = 0
       /\ remote' = remote /\ archive' = archive /\ local' = local /\ local_archive' = local_archive
       /\ temp_files' = temp_files /\ known_hosts' = known_hosts /\ hosts_dir' = hosts_dir
       /\ pc = "initialized" /\ pc' = "done" => trace' = <<Return("pi_push_all_records", "False")>>
       /\ pushes' = pushes + 1 => trace' = <<Return("ii_push_record", "False")>>]_vars

\* an update-only run of a plugin with valid settings, with a file on the
\* source side, after pi_push_all_records or after the second streamed record
C39_Witness ==
  /\ UpdateOnly /\ validate_settings(engine, plugin, TRUE).ok
  /\ \E n \in Names : IF engine = "download" THEN remote[n].kind = "file" ELSE local[n].kind = "file"
  /\ \/ Returned("pi_push_all_records") /\ engine = "download"
     \/ Returned("ii_push_record") /\ pushes = 2 /\ ii.in_field # None

\* ---------------------------------------------------------------- specification
Next ==
  \/ pi_init
  \/ pi_add_incoming_connection
  \/ ii_init
  \/ pi_push_all_records
  \/ pi_push_all_records_item
  \/ pi_push_all_records_end
  \/ ii_push_record
  \/ ii_close

Spec == Init /\ [][Next]_vars

\* the upload tool in UPLOAD_BLOBS mode, followed by the download tool; the
\* host is in the known_hosts file with the key the server presents
RoundTripInit ==
  /\ Init
  /\ engine = "upload" /\ str_xml.upload_mode = "UPLOAD_BLOBS"
  /\ known_hosts = <<[host |-> "host", key |-> ServerKey]>>

RoundTripNext == Next \/ next_tool

RoundTripSpec == RoundTripInit /\ [][RoundTripNext]_vars

====
